---- MODULE Spec2Model ----
(***************************************************************************)
(* Model of the TXB Unibox CRM mailbox core:                               *)
(*   - the fetch-gmail-emails edge function (mailbox sync engine and the   *)
(*     OAuth credential provider it calls),                                *)
(*   - the send-email edge function and the reply editor that invokes it.  *)
(* Storage tables are sequences of rows so that a duplicate row is a       *)
(* representable state.  Times are in milliseconds.                        *)
(***************************************************************************)
EXTENDS Integers, Sequences, FiniteSets, TLC

(* ----------------------------- bounds ---------------------------------- *)
\* messages in the INBOX of the small scenarios
InboxSmall == 6
\* messages in the INBOX of the full-window scenario
InboxFull == 10
\* messages that may be delivered to the INBOX while syncs run
MaxArrive == 1
\* messages in the sent folder
SentSize == 2
\* sync invocations one client session may issue
MaxRuns == 2
\* logical sends of the reply editor
MaxSends == 2
\* events the unibox page sees: setups, polling ticks, clicks on the sync
\* buttons, returns to the foreground, changes of the account filter
MaxEvents == 3
\* open and click beacons the tracker receives
MaxBeacons == 3
\* replies rows in storage when a conversation is opened
MaxRows == 2
\* change notifications the unibox page receives
MaxChanges == 3
MaxCallbacks == 2

(* ------------------------ program constants ---------------------------- *)
InboxCap == 10
SentCap == 50
BatchSize == 5
MarginMs == 5 * 60 * 1000
DefaultLimit == 10
DeepLimit == 50
FocusLimit == 5

Sessions == {"s1", "s2"}
Users == {"u1", "u2"}
Limits == {FocusLimit, DefaultLimit, DeepLimit}
\* expires_in (seconds) values the token endpoint may answer with
ExpiresIn == {3599, 3600}

Null == "null"
NoTok == -1
NoTime == -1

Min(a, b) == IF a < b THEN a ELSE b
Max(a, b) == IF a > b THEN a ELSE b

(* ----------------------------- addresses ------------------------------- *)
\* An address is its lower-case spelling plus whether it is written with
\* upper-case letters; toLowerCase() forgets the spelling.
Addr(n, c) == [name |-> n, case |-> c]
NoAddr == Addr("", "lower")
\* a comparison of the spellings as written
ToLowerCaseKeep(a) == a

ToLowerCase(a) == [a EXCEPT !.case = "lower"]
MeAddr == Addr("me@x.com", "lower")
LeadAddr == Addr("lead@y.com", "lower")

(* ----------------------------- mailbox --------------------------------- *)
InboxKinds == {"ok", "self", "selfMixed", "nofrom", "fetcherr", "empty", "unparseable", "badenv"}
SentKinds == {"ok", "noto", "badenv"}

\* one INBOX message: envelope (from, messageId, envOk = envelope.from is an
\* array) and what fetching and parsing its source yields
InboxMsg(i, kind) ==
    [uid |-> i, messageId |-> i,
     from |-> CASE kind = "self" -> MeAddr
                [] kind = "selfMixed" -> Addr("me@x.com", "mixed")
                [] kind = "nofrom" -> NoAddr
                [] OTHER -> LeadAddr,
     source |-> CASE kind = "fetcherr" -> "fetcherr"
                  [] kind = "empty" -> "empty"
                  [] kind = "unparseable" -> "unparseable"
                  [] OTHER -> "ok",
     envOk |-> kind # "badenv"]

\* ids of sent-folder messages are disjoint from INBOX ids
SentMsg(i, kind) ==
    [uid |-> i, messageId |-> 100 + i,
     to |-> IF kind = "noto" THEN NoAddr ELSE LeadAddr,
     envOk |-> kind # "badenv"]

\* an INBOX of n messages, all ordinary except message p of kind k (p = 0: none)
MkInbox(n, p, k) == [i \in 1..n |-> InboxMsg(i, IF i = p THEN k ELSE "ok")]
MkSent(n, p, k) == [i \in 1..n |-> SentMsg(i, IF i = p THEN k ELSE "ok")]

VARIABLES
    account,      \* the email_accounts row
    config,       \* where the OAuth client id/secret are: "env", "app_config", "missing"
    now,          \* Date.now()
    inbox,        \* the remote INBOX, by sequence number
    sentbox,      \* the remote sent folder
    sentFolders,  \* names of the sent folders the mailbox has
    arrived,      \* messages delivered since Init
    replies,      \* storage: replies rows
    email_logs,   \* storage: email_logs rows
    inv,          \* per session: the sync invocation in flight (or finished)
    runs,         \* per session: invocations started
    budget,       \* per session: invocations it may start
    limits,       \* the `limit` values the sessions request
    nextTok,      \* next access token the token endpoint hands out
    issued,       \* refresh responses so far: [token, expires_at]
    raced         \* history: a batch was written while the other session was in its loop

syncVars == <<account, config, now, inbox, sentbox, sentFolders, arrived, replies,
              email_logs, inv, runs, budget, limits, nextTok, issued, raced>>

VARIABLES
    msg,          \* the message selected in the conversation pane
    history,      \* currentHistoryRef.value: the displayed conversation
    cli,          \* the reply editor's send handler
    srv,          \* the send-email invocation
    calls,        \* provider send calls made for the current logical send
    logIds,       \* tracking ids generated for the current logical send
    sends,        \* logical sends started
    toast,        \* the last toast shown
    nextId,       \* next message id the provider assigns
    nextLog       \* next tracking id (crypto.randomUUID)

sendVars == <<msg, history, cli, srv, calls, logIds, sends, toast, nextId, nextLog>>
syncOnly == <<config, now, inbox, sentbox, sentFolders, arrived, inv, runs, budget,
              limits, nextTok, issued, raced>>
VARIABLES
    isSyncing,        \* UniboxUI.isSyncing
    bgSyncInterval,   \* UniboxUI.bgSyncInterval: handle of the interval (0: none)
    realtimeChannel,  \* UniboxUI.realtimeChannel: handle of the channel (0: none)
    hasFocusListener, \* window._uniboxHasFocusListener
    activeId,         \* activeFilters.email_account_id
    timers,           \* interval timers that are live
    channels,         \* push subscriptions that are live
    deepPending,      \* setTimeout callbacks not yet run
    visible,          \* document.visibilityState = "visible"
    bg,               \* the runBackgroundSyncList call in progress
    man,              \* per click: the manual sync handler in progress
    lastFailed,       \* per account: its last background sync failed
    hammered,         \* history: a periodic cycle retried a failed account at once
    lastShow,         \* history: what the last visibilitychange handler found and did
    nextHandle,       \* next timer/channel handle
    budgetUi          \* events the page may still see

coordVars == <<isSyncing, bgSyncInterval, realtimeChannel, hasFocusListener, activeId,
               timers, channels, deepPending, visible, bg, man, lastFailed, hammered,
               lastShow, nextHandle, budgetUi>>

VARIABLES
    beacons           \* per beacon: the tracker invocation serving it

trackVars == <<beacons>>

VARIABLES
    view              \* the conversation pane's fetchThreadHistory call

viewVars == <<view>>

VARIABLES
    leads,            \* storage: leads rows
    tags,             \* storage: the tags column of the replies rows, by row id
    chg               \* the status dropdown's change handler

statusVars == <<leads, tags, chg>>

VARIABLES
    changes,          \* storage: changes committed to replies / email_logs so far
    refreshes,        \* per notification: the refreshAll call it started
    shown             \* UniboxUI.replies: the thread list on display, by the
                      \* storage state it was fetched from

listVars == <<changes, refreshes, shown>>

VARIABLES
    email_accounts,   \* storage: the email_accounts rows the callbacks read and write
    cbs               \* per callback: the gmail-auth-callback invocation serving it

oauthVars == <<email_accounts, cbs>>

lateVars == <<statusVars, listVars, oauthVars>>
restVars == <<trackVars, viewVars, lateVars>>
otherVars == <<coordVars, restVars>>
vars == <<syncVars, sendVars, otherVars>>

(* ----------------------------- storage --------------------------------- *)
RECURSIVE CountId(_, _)
CountId(table, m) ==
    IF table = <<>> THEN 0
    ELSE (IF Head(table).message_id = m THEN 1 ELSE 0) + CountId(Tail(table), m)

StoredIds(table) == {table[i].message_id : i \in DOMAIN table}

\* the replies row the sync builds; `type` is not among its columns
ReplyRow(acc, m) ==
    [message_id |-> m.messageId, email_account_id |-> acc.id,
     lead_id |-> IF m.from = LeadAddr THEN "L1" ELSE Null,
     from_email |-> m.from, is_read |-> FALSE, type |-> Null]

\* the email_logs row the sync builds; id is generated by the database
LogRow(acc, m) ==
    [id |-> 0, message_id |-> m.messageId, email_account_id |-> acc.id,
     lead_id |-> IF m.to = LeadAddr THEN "L1" ELSE Null,
     thread_id |-> 0, status |-> "Sent",
     opened_at |-> NoTime, clicked_at |-> NoTime]

\* ON CONFLICT (message_id) DO UPDATE: the columns the row supplies are
\* overwritten, the others (type, id, opened_at, clicked_at) keep the stored
\* value
MergeRow(old, new) ==
    IF "type" \in DOMAIN old
    THEN [new EXCEPT !.type = old.type]
    ELSE [new EXCEPT !.id = old.id, !.opened_at = old.opened_at,
                     !.clicked_at = old.clicked_at]

\* .insert(row)
InsertRow(table, row) == Append(table, row)

\* a write that ignores the conflict target
UpsertRowAsInsert(table, row) == Append(table, row)

\* .upsert(row, { onConflict: 'message_id' })
UpsertRow(table, row) ==
    IF \E i \in DOMAIN table : table[i].message_id = row.message_id
    THEN [i \in DOMAIN table |->
            IF table[i].message_id = row.message_id
            THEN MergeRow(table[i], row) ELSE table[i]]
    ELSE Append(table, row)

RECURSIVE Upsert(_, _)
Upsert(table, batch) ==
    IF batch = <<>> THEN table
    ELSE Upsert(UpsertRow(table, Head(batch)), Tail(batch))

(* ------------------------- credential provider ------------------------- *)
\* a lookup that ignores the requesting user
OwnsAnyone(acc, id, u) == acc.id = id

\* .eq("id", accountId).eq("user_id", user.id).single()
Owns(acc, id, u) == acc.id = id /\ acc.user_id = u

\* a cache test that accepts any token not yet expired
GetOAuthTokenNoMargin(acc, t, cfg) ==
    IF acc.access_token # NoTok /\ acc.expires_at # NoTime
         /\ (acc.expires_at - t) > 0
    THEN "cached"
    ELSE IF acc.refresh_token = Null THEN "AUTH_OAUTH_REFRESH_MISSING"
    ELSE IF cfg = "missing" THEN "AUTH_CONFIG_MISSING"
    ELSE "refresh"

\* getOAuthToken up to the refresh call: "cached", "refresh" or the error thrown
GetOAuthToken(acc, t, cfg) ==
    IF acc.access_token # NoTok /\ acc.expires_at # NoTime
         /\ (acc.expires_at - t) > MarginMs
    THEN "cached"
    ELSE IF acc.refresh_token = Null THEN "AUTH_OAUTH_REFRESH_MISSING"
    ELSE IF cfg = "missing" THEN "AUTH_CONFIG_MISSING"
    ELSE "refresh"

\* an UPDATE that writes the token and leaves the expiry
PersistTokenOnly(acc, tok, exp) == [acc EXCEPT !.access_token = tok]

\* refresh(): the single UPDATE of access_token and expires_at
PersistToken(acc, tok, exp) == [acc EXCEPT !.access_token = tok, !.expires_at = exp]

(* ----------------------------- responses ------------------------------- *)
NoResp == [status |-> 0, fields |-> {}, success |-> FALSE, partial |-> FALSE,
           inbox |-> 0, sent |-> 0, error |-> "", code |-> ""]

OkResp(i, s) ==
    [NoResp EXCEPT !.status = 200, !.fields = {"success", "inbox", "sent"},
                   !.success = TRUE, !.inbox = i, !.sent = s]

PartialResp(i, s, text) ==
    [NoResp EXCEPT !.status = 200,
                   !.fields = {"success", "partial", "inbox", "sent", "error"},
                   !.success = TRUE, !.partial = TRUE, !.inbox = i, !.sent = s,
                   !.error = text]

\* err.message.includes("AUTH_")
IncludesAuth(text) ==
    text \in {"AUTH_PASSWORD_MISSING", "AUTH_OAUTH_REFRESH_MISSING",
             "AUTH_CONFIG_MISSING", "AUTH_REFRESH_FAILED"}

InnerStatus(text) == IF IncludesAuth(text) THEN 400 ELSE 500
OuterStatus(text) == 500

FatalResp(st, text, withCode) ==
    [NoResp EXCEPT !.status = st,
                   !.fields = IF withCode THEN {"error", "code"} ELSE {"error"},
                   !.error = text, !.code = IF withCode THEN text ELSE ""]

\* the catch of the outer try: always a bare error
OuterCatch(r, text) ==
    [r EXCEPT !.pc = "done", !.resp = FatalResp(OuterStatus(text), text, FALSE)]

\* the catch of the inner try: partial success when anything was processed
InnerCatch(r, text) ==
    [r EXCEPT !.pc = "done",
              !.resp = IF r.inboxProcessed > 0 \/ r.sentProcessed > 0
                       THEN PartialResp(r.inboxProcessed, r.sentProcessed, text)
                       ELSE FatalResp(InnerStatus(text), text, TRUE)]

(* ----------------------------- invocation ------------------------------ *)
IdleInv(acc) ==
    [pc |-> "idle", user |-> "u1", limit |-> DefaultLimit, acct |-> acc,
     tok |-> NoTok, tokExp |-> NoTime, authTok |-> NoTok, conn |-> FALSE,
     lock |-> "", window |-> <<>>, batch |-> <<>>,
     inboxProcessed |-> 0, sentProcessed |-> 0, errors |-> <<>>,
     pushed |-> {}, seen |-> <<>>, known |-> {}, wrote |-> 0, refreshCalls |-> 0,
     resolved |-> "", resp |-> NoResp]

InFlight(s) == inv[s].pc \notin {"idle", "done"}
OtherInLoop(s) == \E o \in Sessions \ {s} : inv[o].pc = "inboxLoop" /\ inv[o].batch # <<>>

\* the last min(limit, cap) messages of a folder, by sequence number
Window(folder, limit, cap) ==
    SubSeq(folder, Max(1, Len(folder) - Min(limit, cap) + 1), Len(folder))

\* serve: request parsed, user verified
SyncInvoke(s) ==
    /\ ~InFlight(s)
    /\ runs[s] < budget[s]
    /\ \E u \in Users, l \in limits :
         inv' = [inv EXCEPT ![s] = [IdleInv(account) EXCEPT
                                      !.pc = "load", !.user = u, !.limit = l]]
    /\ runs' = [runs EXCEPT ![s] = @ + 1]
    /\ UNCHANGED <<account, config, now, inbox, sentbox, sentFolders, arrived,
                   replies, email_logs, budget, limits, nextTok, issued, raced, sendVars, otherVars>>

\* serve: load the account (ownership check) and choose the credentials
SyncLoad(s) ==
    /\ inv[s].pc = "load"
    /\ LET r == [inv[s] EXCEPT !.acct = account]
           isGmail == account.provider = "Gmail"
           got == GetOAuthToken(account, now, config)
           q == [r EXCEPT !.resolved = got]
       IN inv' = [inv EXCEPT ![s] =
            IF ~Owns(account, account.id, r.user)
            THEN OuterCatch(r, "ACCOUNT_NOT_FOUND_OR_FORBIDDEN")
            ELSE IF isGmail /\ account.refresh_token # Null
            THEN (IF got = "cached"
                  THEN [q EXCEPT !.pc = "connect", !.authTok = account.access_token]
                  ELSE IF got = "refresh" THEN [q EXCEPT !.pc = "refresh"]
                  ELSE OuterCatch(q, got))
            ELSE IF account.imap_password = Null
            THEN OuterCatch(r, "AUTH_PASSWORD_MISSING")
            ELSE [r EXCEPT !.pc = "connect"]]
    /\ UNCHANGED <<account, config, now, inbox, sentbox, sentFolders, arrived,
                   replies, email_logs, runs, budget, limits, nextTok, issued, raced, sendVars, otherVars>>

\* refresh: the POST to the token endpoint
SyncRefresh(s) ==
    /\ inv[s].pc = "refresh"
    /\ \/ \E e \in ExpiresIn :
            /\ inv' = [inv EXCEPT ![s].pc = "persist", ![s].tok = nextTok,
                                  ![s].tokExp = now + e * 1000,
                                  ![s].refreshCalls = @ + 1]
            /\ issued' = issued \cup {[token |-> nextTok, expires_at |-> now + e * 1000]}
            /\ nextTok' = nextTok + 1
       \/ /\ inv' = [inv EXCEPT ![s] = OuterCatch([inv[s] EXCEPT !.refreshCalls = @ + 1],
                                                   "AUTH_REFRESH_FAILED")]
          /\ UNCHANGED <<issued, nextTok>>
    /\ UNCHANGED <<account, config, now, inbox, sentbox, sentFolders, arrived,
                   replies, email_logs, runs, budget, limits, raced, sendVars, otherVars>>

\* refresh: persist the new token and expiry, return the token
SyncPersist(s) ==
    /\ inv[s].pc = "persist"
    /\ account' = PersistToken(account, inv[s].tok, inv[s].tokExp)
    /\ inv' = [inv EXCEPT ![s].pc = "connect", ![s].authTok = inv[s].tok]
    /\ UNCHANGED <<config, now, inbox, sentbox, sentFolders, arrived,
                   replies, email_logs, runs, budget, limits, nextTok, issued, raced, sendVars, otherVars>>

\* serve: client.connect()
SyncConnect(s) ==
    /\ inv[s].pc = "connect"
    /\ \/ inv' = [inv EXCEPT ![s].pc = "lockInbox", ![s].conn = TRUE]
       \/ inv' = [inv EXCEPT ![s] = OuterCatch(inv[s], "CONN_FAILED")]
    /\ UNCHANGED <<account, config, now, inbox, sentbox, sentFolders, arrived,
                   replies, email_logs, runs, budget, limits, nextTok, issued, raced, sendVars, otherVars>>

\* serve: lock INBOX and fetch the envelopes of the window
SyncLockInbox(s) ==
    /\ inv[s].pc = "lockInbox"
    /\ \/ inv' = [inv EXCEPT ![s].pc = "inboxLoop", ![s].lock = "INBOX",
                             ![s].window = Window(inbox, inv[s].limit, InboxCap),
                             ![s].seen = Window(inbox, inv[s].limit, InboxCap),
                             ![s].known = StoredIds(replies)]
       \/ inv' = [inv EXCEPT ![s] = InnerCatch(inv[s], "MAILBOX_INBOX_LOCKED")]
    /\ UNCHANGED <<account, config, now, inbox, sentbox, sentFolders, arrived,
                   replies, email_logs, runs, budget, limits, nextTok, issued, raced, sendVars, otherVars>>

\* a loop body that takes whatever the source fetch and the parser give
InboxOutcomeUnchecked(acc, m) ==
    IF ~m.envOk THEN "throw"
    ELSE IF m.from = NoAddr \/ ToLowerCase(m.from) = ToLowerCase(acc.email_address)
    THEN "skip"
    ELSE "push"

\* one iteration of the INBOX loop: what happens to the message.
\* What the loop body does with one message: the envelope has no sender
\* array (TypeError, caught by the message's catch), the sender is absent or
\* the account itself, the source cannot be fetched or is empty, the parser
\* rejects it, or the row is pushed
InboxOutcome(acc, m) ==
    IF ~m.envOk THEN "throw"
    ELSE IF m.from = NoAddr \/ ToLowerCase(m.from) = ToLowerCase(acc.email_address)
    THEN "skip"
    ELSE IF m.source = "fetcherr" \/ m.source = "empty" THEN "skip"
    ELSE IF m.source = "unparseable" THEN "skip"
    ELSE "push"

\* the batch is written once it holds BatchSize rows
FlushDue(batch) == Len(batch) >= BatchSize

SyncInboxMsg(s) ==
    /\ inv[s].pc = "inboxLoop"
    /\ inv[s].window # <<>>
    /\ LET r == inv[s]
           m == Head(r.window)
           out == InboxOutcome(r.acct, m)
           batch == Append(r.batch, ReplyRow(r.acct, m))
           flush == out = "push" /\ FlushDue(batch)
       IN /\ replies' = IF flush THEN Upsert(replies, batch) ELSE replies
          /\ raced' = (raced \/ (flush /\ OtherInLoop(s)))
          /\ inv' = [inv EXCEPT ![s] =
                IF out = "push"
                THEN [r EXCEPT !.window = Tail(r.window),
                               !.batch = IF flush THEN <<>> ELSE batch,
                               !.inboxProcessed = @ + 1,
                               !.pushed = @ \cup {m.messageId},
                               !.wrote = IF flush THEN @ + Len(batch) ELSE @]
                ELSE [r EXCEPT !.window = Tail(r.window),
                               !.errors = IF out = "throw"
                                          THEN Append(@, "TypeError") ELSE @]]
    /\ UNCHANGED <<account, config, now, inbox, sentbox, sentFolders, arrived,
                   email_logs, runs, budget, limits, nextTok, issued, sendVars, otherVars>>

\* an exception path that leaves the try without the finally
ReleaseSkipped(r) == r

\* finally { lock.release() } on the way out of the try by an exception
Release(r) == [r EXCEPT !.lock = ""]

\* the fetch iterator throws (connection lost): finally releases the lock,
\* the inner catch answers
SyncInboxAbort(s) ==
    /\ inv[s].pc = "inboxLoop"
    /\ inv[s].window # <<>>
    /\ inv' = [inv EXCEPT ![s] = InnerCatch(Release(inv[s]), "FETCH_FAILED")]
    /\ UNCHANGED <<account, config, now, inbox, sentbox, sentFolders, arrived,
                   replies, email_logs, runs, budget, limits, nextTok, issued, raced, sendVars, otherVars>>

\* a loop end that drops the rest of the batch
FinalFlushLost(table, batch) == table

\* rows still in the batch when the loop ends
FinalFlush(table, batch) == IF Len(batch) > 0 THEN Upsert(table, batch) ELSE table

\* end of the INBOX loop: write the rest of the batch, release the lock
SyncInboxEnd(s) ==
    /\ inv[s].pc = "inboxLoop"
    /\ inv[s].window = <<>>
    /\ replies' = FinalFlush(replies, inv[s].batch)
    /\ inv' = [inv EXCEPT ![s].pc = "lockSent", ![s].lock = "", ![s].batch = <<>>,
                          ![s].wrote = @ + Len(inv[s].batch)]
    /\ raced' = (raced \/ (inv[s].batch # <<>> /\ OtherInLoop(s)))
    /\ UNCHANGED <<account, config, now, inbox, sentbox, sentFolders, arrived,
                   email_logs, runs, budget, limits, nextTok, issued, sendVars, otherVars>>

\* the sent folder the sync ends up locking ("" when none)
SentMailbox(isGmail, folders) ==
    IF isGmail
    THEN (IF "[Gmail]/Sent Mail" \in folders THEN "[Gmail]/Sent Mail"
          ELSE IF "Sent" \in folders THEN "Sent" ELSE "")
    ELSE (IF "Sent" \in folders THEN "Sent" ELSE "")

SyncLockSent(s) ==
    /\ inv[s].pc = "lockSent"
    /\ LET name == SentMailbox(inv[s].acct.provider = "Gmail", sentFolders)
       IN inv' = [inv EXCEPT ![s] =
            IF name = "" THEN [@ EXCEPT !.pc = "logout"]
            ELSE [@ EXCEPT !.pc = "sentLoop", !.lock = name,
                           !.window = Window(sentbox, inv[s].limit, SentCap)]]
    /\ UNCHANGED <<account, config, now, inbox, sentbox, sentFolders, arrived,
                   replies, email_logs, runs, budget, limits, nextTok, issued, raced, sendVars, otherVars>>

SentOutcome(m) ==
    IF ~m.envOk THEN "throw"
    ELSE IF m.to = NoAddr THEN "skip"
    ELSE "push"

SyncSentMsg(s) ==
    /\ inv[s].pc = "sentLoop"
    /\ inv[s].window # <<>>
    /\ LET r == inv[s]
           m == Head(r.window)
           out == SentOutcome(m)
           batch == Append(r.batch, LogRow(r.acct, m))
       IN IF out = "push"
          THEN /\ email_logs' = IF FlushDue(batch) THEN Upsert(email_logs, batch) ELSE email_logs
               /\ inv' = [inv EXCEPT ![s].window = Tail(r.window),
                                     ![s].batch = IF FlushDue(batch) THEN <<>> ELSE batch,
                                     ![s].sentProcessed = @ + 1,
                                     ![s].pushed = @ \cup {m.messageId}]
          ELSE /\ email_logs' = email_logs
               /\ inv' = [inv EXCEPT ![s].window = Tail(r.window),
                                     ![s].errors = IF out = "throw"
                                                   THEN Append(@, "TypeError") ELSE @]
    /\ UNCHANGED <<account, config, now, inbox, sentbox, sentFolders, arrived,
                   replies, runs, budget, limits, nextTok, issued, raced, sendVars, otherVars>>

SyncSentAbort(s) ==
    /\ inv[s].pc = "sentLoop"
    /\ inv[s].window # <<>>
    /\ inv' = [inv EXCEPT ![s] = InnerCatch(Release(inv[s]), "FETCH_FAILED")]
    /\ UNCHANGED <<account, config, now, inbox, sentbox, sentFolders, arrived,
                   replies, email_logs, runs, budget, limits, nextTok, issued, raced, sendVars, otherVars>>

SyncSentEnd(s) ==
    /\ inv[s].pc = "sentLoop"
    /\ inv[s].window = <<>>
    /\ email_logs' = FinalFlush(email_logs, inv[s].batch)
    /\ inv' = [inv EXCEPT ![s].pc = "logout", ![s].lock = "", ![s].batch = <<>>]
    /\ UNCHANGED <<account, config, now, inbox, sentbox, sentFolders, arrived,
                   replies, runs, budget, limits, nextTok, issued, raced, sendVars, otherVars>>

\* logout, stamp last_synced_at, answer 200; or logout throws
SyncFinish(s) ==
    /\ inv[s].pc = "logout"
    /\ \/ /\ account' = [account EXCEPT !.last_synced_at = now]
          /\ inv' = [inv EXCEPT ![s].pc = "done", ![s].conn = FALSE,
                                ![s].resp = OkResp(inv[s].inboxProcessed,
                                                   inv[s].sentProcessed)]
       \/ /\ account' = account
          /\ inv' = [inv EXCEPT ![s] = InnerCatch(inv[s], "LOGOUT_FAILED")]
    /\ UNCHANGED <<config, now, inbox, sentbox, sentFolders, arrived,
                   replies, email_logs, runs, budget, limits, nextTok, issued, raced, sendVars, otherVars>>

\* the remote mailbox receives a message
Arrive ==
    /\ arrived < MaxArrive
    /\ inbox' = Append(inbox, InboxMsg(Len(inbox) + 1, "ok"))
    /\ arrived' = arrived + 1
    /\ UNCHANGED <<account, config, now, sentbox, sentFolders, replies, email_logs,
                   inv, runs, budget, limits, nextTok, issued, raced, sendVars, otherVars>>

NextSync ==
    \/ \E s \in Sessions :
         \/ SyncInvoke(s) \/ SyncLoad(s) \/ SyncRefresh(s) \/ SyncPersist(s)
         \/ SyncConnect(s) \/ SyncLockInbox(s)
         \/ SyncInboxMsg(s) \/ SyncInboxAbort(s) \/ SyncInboxEnd(s)
         \/ SyncLockSent(s)
         \/ SyncSentMsg(s) \/ SyncSentAbort(s) \/ SyncSentEnd(s)
         \/ SyncFinish(s)
    \/ Arrive

(* ------------------------------ sending -------------------------------- *)
\* A thread id as the reply editor sees it: the provider's number, whether its
\* text is hexadecimal and longer than 3 characters, and whether the provider
\* still accepts it.
Thread(n, hex, long, live) == [id |-> n, hex |-> hex, long |-> long, live |-> live]
NoThread == Thread(0, FALSE, FALSE, FALSE)
Threads == {NoThread, Thread(11, TRUE, FALSE, TRUE), Thread(12, FALSE, TRUE, TRUE),
            Thread(13, TRUE, TRUE, FALSE), Thread(14, TRUE, TRUE, TRUE)}

\* the reply editor puts threadId in the payload only for a hex string of
\* more than 3 characters
PayloadThread(t) == IF t # NoThread /\ t.long /\ t.hex THEN t ELSE NoThread

\* recipient of the reply: the sender of the selected message, else the sender
\* of the last received message of the thread history
Recipient(m) == IF m.from_email # NoAddr THEN m.from_email ELSE m.histFrom

\* the first message id the provider assigns
FirstId == 201

NoSendData == [error |-> "", id |-> 0, threadId |-> 0]
NoSendResp == [status |-> 0, error |-> "", id |-> 0, threadId |-> 0]
IdleCli == [pc |-> "idle", tempId |-> 0, threadId |-> NoThread, to |-> NoAddr,
            accountId |-> Null, invokes |-> 0, outcome |-> ""]
IdleSrv == [pc |-> "idle", user |-> "u1", threadId |-> NoThread, to |-> NoAddr,
            accountId |-> Null, logId |-> 0, tokenCalls |-> 0,
            sendData |-> NoSendData, resp |-> NoSendResp]

TempId(n) == 0 - n

\* what the provider may answer to a send: a thread id is rejected as invalid
\* only when one is supplied and is stale
SendOutcomes(t) ==
    IF t # NoThread /\ ~t.live THEN {"Invalid thread_id", "Quota exceeded"}
    ELSE {"", "Quota exceeded"}

\* the provider's answer as the JSON body of the send call
SendData(t, err, n) ==
    IF err # "" THEN [error |-> err, id |-> 0, threadId |-> 0]
    ELSE [error |-> "", id |-> n, threadId |-> IF t # NoThread THEN t.id ELSE n]

\* sendData.error?.message?.includes('Invalid thread_id')
IsInvalidThread(err) == err = "Invalid thread_id"

\* a retry that sends the same thread id again
RetryThreadKeep(t) == t

\* the thread id the retry sends
RetryThread(t) == NoThread

\* the catch of the handler, then its finally: the toast, the button restored
CliFail(c, text) == [c EXCEPT !.pc = "idle", !.outcome = text]

\* click on Send: optimistic entry, then the checks before the session refresh
ReplyClick ==
    /\ cli.pc = "idle"
    /\ srv.pc = "idle"
    /\ sends < MaxSends
    /\ \E content \in {"", "text"} :
         IF content = ""
         THEN /\ toast' = "Please enter a message"
              /\ UNCHANGED <<history, cli, calls, logIds, sends>>
         ELSE LET n == sends + 1
                  c == [IdleCli EXCEPT !.tempId = TempId(n),
                                       !.accountId = msg.email_account_id,
                                       !.to = Recipient(msg),
                                       !.threadId = PayloadThread(msg.thread_id)]
              IN /\ sends' = n
                 /\ history' = Append(history, [message_id |-> TempId(n), thread_id |-> 0])
                 /\ calls' = <<>>
                 /\ logIds' = {}
                 /\ IF msg.email_account_id = Null
                    THEN /\ cli' = CliFail(c, "Unable to determine sending account")
                         /\ toast' = "Error"
                    ELSE IF Recipient(msg) = NoAddr
                    THEN /\ cli' = CliFail(c, "Unable to determine recipient")
                         /\ toast' = "Error"
                    ELSE /\ cli' = [c EXCEPT !.pc = "session"]
                         /\ toast' = toast
    /\ UNCHANGED <<account, replies, email_logs, syncOnly, otherVars, msg, srv, nextId, nextLog>>

\* supabase.auth.refreshSession(), then the first invoke of send-email
ReplySession ==
    /\ cli.pc = "session"
    /\ \/ /\ cli' = [cli EXCEPT !.pc = "invoke", !.invokes = 1]
          /\ \E u \in Users :
                srv' = [IdleSrv EXCEPT !.pc = "auth", !.user = u,
                                      !.threadId = cli.threadId,
                                      !.to = cli.to, !.accountId = cli.accountId]
          /\ toast' = toast
       \/ /\ cli' = CliFail(cli, "Session refresh failed")
          /\ srv' = srv
          /\ toast' = "Error"
    /\ UNCHANGED <<account, replies, email_logs, syncOnly, otherVars, msg, history, calls, logIds,
                   sends, nextId, nextLog>>

SendFail(r, st, text) == [r EXCEPT !.pc = "responded", !.resp = [NoSendResp EXCEPT !.status = st, !.error = text]]

\* send-email: verify the user, draw the tracking id, check the fields, load
\* the account of the requesting user
SendAuth ==
    /\ srv.pc = "auth"
    /\ \/ /\ srv' = SendFail(srv, 401, "UNAUTHORIZED")
          /\ UNCHANGED <<logIds, nextLog>>
       \/ /\ nextLog' = nextLog + 1
          /\ logIds' = logIds \cup {nextLog}
          /\ srv' = LET r == [srv EXCEPT !.logId = nextLog]
                    IN IF r.accountId = Null \/ r.to = NoAddr
                       THEN SendFail(r, 400, "Missing required fields")
                       ELSE IF ~Owns(account, r.accountId, r.user)
                       THEN SendFail(r, 403, "Email account not found or access denied")
                       ELSE [r EXCEPT !.pc = "token"]
    /\ UNCHANGED <<account, replies, email_logs, syncOnly, otherVars, msg, history, cli, calls,
                   sends, toast, nextId>>

\* send-email: exchange the refresh token for an access token
SendToken ==
    /\ srv.pc = "token"
    /\ LET r == [srv EXCEPT !.tokenCalls = @ + 1]
       IN \/ /\ account.refresh_token # Null
             /\ srv' = [r EXCEPT !.pc = "send"]
          \/ srv' = SendFail(r, 500, "Failed to refresh access token")
    /\ UNCHANGED <<account, replies, email_logs, syncOnly, otherVars, msg, history, cli, calls,
                   logIds, sends, toast, nextId, nextLog>>

\* send-email: sendEmail(threadId || null)
SendAttempt ==
    /\ srv.pc = "send"
    /\ \E err \in SendOutcomes(srv.threadId) :
         LET d == SendData(srv.threadId, err, nextId)
         IN /\ calls' = Append(calls, [threadId |-> srv.threadId, error |-> err, id |-> d.id])
            /\ nextId' = IF err = "" THEN nextId + 1 ELSE nextId
            /\ srv' = [srv EXCEPT !.sendData = d,
                                  !.pc = IF IsInvalidThread(err) THEN "retry" ELSE "persist"]
    /\ UNCHANGED <<account, replies, email_logs, syncOnly, otherVars, msg, history, cli,
                   logIds, sends, toast, nextLog>>

\* send-email: the retry without the thread id
SendRetry ==
    /\ srv.pc = "retry"
    /\ LET t == RetryThread(srv.threadId)
       IN \E err \in SendOutcomes(t) :
            LET d == SendData(t, err, nextId)
            IN /\ calls' = Append(calls, [threadId |-> t, error |-> err, id |-> d.id])
               /\ nextId' = IF err = "" THEN nextId + 1 ELSE nextId
               /\ srv' = [srv EXCEPT !.sendData = d, !.pc = "persist"]
    /\ UNCHANGED <<account, replies, email_logs, syncOnly, otherVars, msg, history, cli,
                   logIds, sends, toast, nextLog>>

\* the conversation row of a sent message
SentReplyRow(r) ==
    [message_id |-> r.sendData.id, email_account_id |-> r.accountId,
     lead_id |-> Null, from_email |-> MeAddr, is_read |-> TRUE, type |-> "sent"]

\* a log row that keeps the thread id of the request
SentLogRowStale(r) ==
    [id |-> r.logId, message_id |-> r.sendData.id, email_account_id |-> r.accountId,
     lead_id |-> Null, thread_id |-> r.threadId.id, status |-> "Sent",
     opened_at |-> NoTime, clicked_at |-> NoTime]

\* the email_logs row of a sent message
SentLogRow(r) ==
    [id |-> r.logId, message_id |-> r.sendData.id, email_account_id |-> r.accountId,
     lead_id |-> Null, thread_id |-> r.sendData.threadId, status |-> "Sent",
     opened_at |-> NoTime, clicked_at |-> NoTime]

\* a handler without the error check
SendFailedNever(d) == FALSE

\* if (sendData.error)
SendFailed(d) == d.error # ""

\* send-email: a provider error answers 500 and stores nothing; otherwise the
\* conversation row and the log row are inserted (an insert error is logged
\* and ignored) and the ids returned
SendPersist ==
    /\ srv.pc = "persist"
    /\ IF SendFailed(srv.sendData)
       THEN /\ srv' = SendFail(srv, 500, srv.sendData.error)
            /\ UNCHANGED <<replies, email_logs>>
       ELSE /\ \E replyInserted, logInserted \in BOOLEAN :
                 /\ replies' = IF replyInserted
                                THEN InsertRow(replies, SentReplyRow(srv)) ELSE replies
                 /\ email_logs' = IF logInserted
                                   THEN InsertRow(email_logs, SentLogRow(srv))
                                   ELSE email_logs
            /\ srv' = [srv EXCEPT !.pc = "responded",
                                  !.resp = [status |-> 200, error |-> "",
                                            id |-> srv.sendData.id,
                                            threadId |-> srv.sendData.threadId]]
    /\ UNCHANGED <<account, syncOnly, otherVars, msg, history, cli, calls, logIds, sends, toast,
                   nextId, nextLog>>

\* errorStr.includes("Invalid thread_id") on the invoke's error or data.error
ClientSeesInvalidThread(resp) == IsInvalidThread(resp.error)

\* the handler after an invoke returned: retry once without the thread id on
\* an invalid-thread error, else roll the optimistic entry back or commit it
ReplyResponse ==
    /\ cli.pc = "invoke"
    /\ srv.pc = "responded"
    /\ IF cli.invokes = 1 /\ ClientSeesInvalidThread(srv.resp)
       THEN /\ cli' = [cli EXCEPT !.invokes = 2, !.threadId = NoThread]
            /\ srv' = [IdleSrv EXCEPT !.pc = "auth", !.user = srv.user,
                                      !.to = cli.to, !.accountId = cli.accountId]
            /\ UNCHANGED <<history, toast>>
       ELSE IF srv.resp.status # 200 \/ srv.resp.error # ""
       THEN /\ history' = SelectSeq(history, LAMBDA h : h.message_id # cli.tempId)
            /\ cli' = CliFail(cli, srv.resp.error)
            /\ srv' = IdleSrv
            /\ toast' = "Error"
       ELSE /\ history' = [i \in DOMAIN history |->
                             IF history[i].message_id = cli.tempId
                             THEN [message_id |-> srv.resp.id, thread_id |-> srv.resp.threadId]
                             ELSE history[i]]
            /\ cli' = [cli EXCEPT !.pc = "idle", !.outcome = "sent"]
            /\ srv' = IdleSrv
            /\ toast' = "Email sent correctly!"
    /\ UNCHANGED <<account, replies, email_logs, syncOnly, otherVars, msg, calls, logIds, sends,
                   nextId, nextLog>>

NextSend ==
    \/ ReplyClick \/ ReplySession
    \/ SendAuth \/ SendToken \/ SendAttempt \/ SendRetry \/ SendPersist
    \/ ReplyResponse

(* ------------------------- sync coordinator ---------------------------- *)
\* the connected accounts of the user, as fetchEmailAccounts lists them
AccountList == <<"A", "B">>
AccountIds == {"A", "B"}

IdleBg == [pc |-> "idle", todo |-> <<>>, acct |-> Null, limit |-> 0, periodic |-> FALSE]
IdleMan == [pc |-> "idle", todo |-> <<>>, acct |-> Null]
NoShow == [ran |-> FALSE, busy |-> FALSE, started |-> FALSE, limit |-> 0, live |-> FALSE]

\* clicks are numbered; each click runs its own handler
Clicks == 1..MaxEvents

\* fetch-gmail-emails invocations in flight for account a, whoever started them
InFlightFor(a) ==
    (IF bg.pc = "wait" /\ bg.acct = a THEN 1 ELSE 0)
    + Cardinality({m \in Clicks : man[m].pc = "wait" /\ man[m].acct = a})

\* a setup that leaves the old timer and channel alone
TeardownNone(live, handle) == live

\* clearInterval(this.bgSyncInterval), this.realtimeChannel.unsubscribe()
Teardown(live, handle) == live \ {handle}

\* setupRealtime: clear the old interval and channel, subscribe, schedule the
\* deep sync, start the interval, register the focus listener once
SetupRealtime ==
    /\ budgetUi > 0
    /\ budgetUi' = budgetUi - 1
    /\ timers' = Teardown(timers, bgSyncInterval) \cup {nextHandle + 1}
    /\ channels' = Teardown(channels, realtimeChannel) \cup {nextHandle}
    /\ realtimeChannel' = nextHandle
    /\ bgSyncInterval' = nextHandle + 1
    /\ nextHandle' = nextHandle + 2
    /\ deepPending' = deepPending + 1
    /\ hasFocusListener' = TRUE
    /\ UNCHANGED <<isSyncing, activeId, visible, bg, man, lastFailed, hammered, lastShow>>
    /\ UNCHANGED <<syncVars, sendVars, restVars>>

\* runBackgroundSyncList up to its first await: the flag test and the flag set
RunBackgroundSyncList(limit, periodic) ==
    IF isSyncing
    THEN UNCHANGED <<isSyncing, bg>>
    ELSE /\ isSyncing' = TRUE
         /\ bg' = [IdleBg EXCEPT !.pc = "accounts", !.limit = limit, !.periodic = periodic]

\* the setTimeout callback: the deep sync
DeepSync ==
    /\ deepPending > 0
    /\ deepPending' = deepPending - 1
    /\ RunBackgroundSyncList(DeepLimit, FALSE)
    /\ UNCHANGED <<bgSyncInterval, realtimeChannel, hasFocusListener, activeId, timers,
                   channels, visible, man, lastFailed, hammered, lastShow, nextHandle,
                   budgetUi>>
    /\ UNCHANGED <<syncVars, sendVars, restVars>>

\* a live interval timer fires: the quick sync
Tick ==
    /\ budgetUi > 0
    /\ \E t \in timers :
         /\ budgetUi' = budgetUi - 1
         /\ RunBackgroundSyncList(DefaultLimit, TRUE)
    /\ UNCHANGED <<bgSyncInterval, realtimeChannel, hasFocusListener, activeId, timers,
                   channels, deepPending, visible, man, lastFailed, hammered, lastShow,
                   nextHandle>>
    /\ UNCHANGED <<syncVars, sendVars, restVars>>

\* the tab is hidden
Hide ==
    /\ visible
    /\ budgetUi > 0
    /\ visible' = FALSE
    /\ UNCHANGED <<isSyncing, bgSyncInterval, realtimeChannel, hasFocusListener, activeId,
                   timers, channels, deepPending, bg, man, lastFailed, hammered, lastShow,
                   nextHandle, budgetUi>>
    /\ UNCHANGED <<syncVars, sendVars, restVars>>

\* the tab becomes visible: the visibilitychange listener, if registered
Show ==
    /\ ~visible
    /\ visible' = TRUE
    /\ budgetUi' = budgetUi - 1
    /\ IF hasFocusListener
       THEN /\ RunBackgroundSyncList(FocusLimit, FALSE)
            /\ lastShow' = [ran |-> TRUE, busy |-> isSyncing, started |-> ~isSyncing,
                            limit |-> FocusLimit,
                            live |-> realtimeChannel \in channels]
       ELSE UNCHANGED <<isSyncing, bg, lastShow>>
    /\ UNCHANGED <<bgSyncInterval, realtimeChannel, hasFocusListener, activeId, timers,
                   channels, deepPending, man, lastFailed, hammered, nextHandle>>
    /\ UNCHANGED <<syncVars, sendVars, restVars>>

\* the connection behind a push subscription is lost
ChannelDrop ==
    /\ \E c \in channels : channels' = channels \ {c}
    /\ UNCHANGED <<isSyncing, bgSyncInterval, realtimeChannel, hasFocusListener, activeId,
                   timers, deepPending, visible, bg, man, lastFailed, hammered, lastShow,
                   nextHandle, budgetUi>>
    /\ UNCHANGED <<syncVars, sendVars, restVars>>

\* the user picks an account filter, or clears it
SelectAccount ==
    /\ \E a \in AccountIds \cup {Null} : a # activeId /\ activeId' = a
    /\ budgetUi > 0
    /\ budgetUi' = budgetUi - 1
    /\ UNCHANGED <<isSyncing, bgSyncInterval, realtimeChannel, hasFocusListener,
                   timers, channels, deepPending, visible, bg, man, lastFailed, hammered,
                   lastShow, nextHandle>>
    /\ UNCHANGED <<syncVars, sendVars, restVars>>

\* the finally of runBackgroundSyncList
BgFinish == /\ isSyncing' = FALSE
            /\ bg' = IdleBg

\* runBackgroundSyncList after fetchEmailAccounts: nothing to do, or the
\* active account, or all accounts one after the other
BgAccounts ==
    /\ bg.pc = "accounts"
    /\ \/ /\ BgFinish
       \/ /\ bg' = [bg EXCEPT !.pc = "sync",
                              !.todo = IF activeId # Null THEN <<activeId>> ELSE AccountList]
          /\ UNCHANGED isSyncing
    /\ UNCHANGED <<bgSyncInterval, realtimeChannel, hasFocusListener, activeId, timers,
                   channels, deepPending, visible, man, lastFailed, hammered, lastShow,
                   nextHandle, budgetUi>>
    /\ UNCHANGED <<syncVars, sendVars, restVars>>

\* silentGmailSync: getSession, then the invoke of fetch-gmail-emails
BgInvoke ==
    /\ bg.pc = "sync"
    /\ bg.todo # <<>>
    /\ \E session \in BOOLEAN :
         IF session
         THEN /\ bg' = [bg EXCEPT !.pc = "wait", !.acct = Head(bg.todo), !.todo = Tail(bg.todo)]
              /\ hammered' = (hammered \/ (bg.periodic /\ lastFailed[Head(bg.todo)]))
              /\ UNCHANGED isSyncing
         ELSE /\ hammered' = hammered
              /\ IF Tail(bg.todo) = <<>>
                 THEN BgFinish
                 ELSE /\ bg' = [bg EXCEPT !.todo = Tail(bg.todo)]
                      /\ UNCHANGED isSyncing
    /\ UNCHANGED <<bgSyncInterval, realtimeChannel, hasFocusListener, activeId, timers,
                   channels, deepPending, visible, man, lastFailed, lastShow,
                   nextHandle, budgetUi>>
    /\ UNCHANGED <<syncVars, sendVars, restVars>>

\* the invoke returns or throws; either way the loop goes on
BgReturn ==
    /\ bg.pc = "wait"
    /\ \E failed \in BOOLEAN :
         lastFailed' = [lastFailed EXCEPT ![bg.acct] = failed]
    /\ IF bg.todo = <<>>
       THEN BgFinish
       ELSE /\ bg' = [bg EXCEPT !.pc = "sync", !.acct = Null]
            /\ UNCHANGED isSyncing
    /\ UNCHANGED <<bgSyncInterval, realtimeChannel, hasFocusListener, activeId, timers,
                   channels, deepPending, visible, man, hammered, lastShow,
                   nextHandle, budgetUi>>
    /\ UNCHANGED <<syncVars, sendVars, restVars>>

\* click on #refresh-account-btn (the active account) or #sync-all-btn
ManualClick ==
    /\ budgetUi > 0
    /\ LET m == budgetUi
       IN \E all \in BOOLEAN :
            /\ budgetUi' = budgetUi - 1
            /\ man' = [man EXCEPT ![m] =
                 IF all THEN [IdleMan EXCEPT !.pc = "sync", !.todo = AccountList]
                 ELSE IF activeId = Null THEN IdleMan
                 ELSE [IdleMan EXCEPT !.pc = "sync", !.todo = <<activeId>>]]
    /\ UNCHANGED <<isSyncing, bgSyncInterval, realtimeChannel, hasFocusListener, activeId,
                   timers, channels, deepPending, visible, bg, lastFailed, hammered,
                   lastShow, nextHandle>>
    /\ UNCHANGED <<syncVars, sendVars, restVars>>

\* the click handler: getSession, then the invoke of fetch-gmail-emails
ManualInvoke(m) ==
    /\ man[m].pc = "sync"
    /\ man[m].todo # <<>>
    /\ \E session \in BOOLEAN :
         LET r == man[m]
         IN man' = [man EXCEPT ![m] =
              IF session
              THEN [r EXCEPT !.pc = "wait", !.acct = Head(r.todo), !.todo = Tail(r.todo)]
              ELSE IF Tail(r.todo) = <<>> THEN IdleMan
              ELSE [r EXCEPT !.todo = Tail(r.todo)]]
    /\ UNCHANGED <<isSyncing, bgSyncInterval, realtimeChannel, hasFocusListener, activeId,
                   timers, channels, deepPending, visible, bg, lastFailed, hammered,
                   lastShow, nextHandle, budgetUi>>
    /\ UNCHANGED <<syncVars, sendVars, restVars>>

\* the invoke of the click handler returns
ManualReturn(m) ==
    /\ man[m].pc = "wait"
    /\ man' = [man EXCEPT ![m] =
          IF man[m].todo = <<>> THEN IdleMan
          ELSE [man[m] EXCEPT !.pc = "sync", !.acct = Null]]
    /\ UNCHANGED <<isSyncing, bgSyncInterval, realtimeChannel, hasFocusListener, activeId,
                   timers, channels, deepPending, visible, bg, lastFailed, hammered,
                   lastShow, nextHandle, budgetUi>>
    /\ UNCHANGED <<syncVars, sendVars, restVars>>

NextCoord ==
    \/ SetupRealtime \/ DeepSync \/ Tick \/ Hide \/ Show \/ ChannelDrop \/ SelectAccount
    \/ BgAccounts \/ BgInvoke \/ BgReturn
    \/ ManualClick
    \/ \E m \in Clicks : ManualInvoke(m) \/ ManualReturn(m)

\* the page before UniboxUI.init
InitCoordIdle ==
    /\ isSyncing = FALSE
    /\ bgSyncInterval = 0
    /\ realtimeChannel = 0
    /\ hasFocusListener = FALSE
    /\ activeId = Null
    /\ timers = {}
    /\ channels = {}
    /\ deepPending = 0
    /\ visible = TRUE
    /\ bg = IdleBg
    /\ man = [m \in Clicks |-> IdleMan]
    /\ lastFailed = [a \in AccountIds |-> FALSE]
    /\ hammered = FALSE
    /\ lastShow = NoShow
    /\ nextHandle = 1

(* ------------------------------ tracker -------------------------------- *)
Beacons == 1..MaxBeacons

\* a beacon's query string: type, logId (0: absent) and whether url is given
BeaconRequests ==
    [type : {"open", "click"}, logId : 0..2, url : {TRUE}]
    \cup {[type |-> "click", logId |-> 1, url |-> FALSE],
          [type |-> "view", logId |-> 1, url |-> FALSE]}

IdleBeacon == [pc |-> "idle", type |-> "", logId |-> 0, stamp |-> NoTime, status |-> 0]

\* the column a beacon type stamps
StampColumn(type) == IF type = "open" THEN "opened_at" ELSE "clicked_at"

\* a filter that matches whatever the column holds
IsNullAlways(v) == TRUE

\* .is(column, null)
IsNull(v) == v = NoTime

\* .update({ column: stamp }).eq('id', logId).is(column, null)
UpdateStamp(table, logId, column, stamp) ==
    [i \in DOMAIN table |->
        IF table[i].id = logId /\ IsNull(table[i][column])
        THEN [table[i] EXCEPT ![column] = stamp]
        ELSE table[i]]

\* tracker: the request is validated, the timestamp taken and the conditional
\* update issued; beacons are numbered in their order of arrival
TrackReceive(b) ==
    /\ beacons[b].pc = "idle"
    /\ \A c \in 1..(b - 1) : beacons[c].pc # "idle"
    /\ \E q \in BeaconRequests, elapsed \in {0, 1} :
         /\ now' = now + elapsed
         /\ beacons' = [beacons EXCEPT ![b] =
              IF q.logId = 0 \/ q.type \notin {"open", "click"}
                 \/ (q.type = "click" /\ ~q.url)
              THEN [pc |-> "done", type |-> q.type, logId |-> q.logId,
                    stamp |-> NoTime, status |-> 400]
              ELSE [pc |-> "update", type |-> q.type, logId |-> q.logId,
                    stamp |-> now', status |-> 0]]
    /\ UNCHANGED <<account, config, inbox, sentbox, sentFolders, arrived, replies,
                   email_logs, inv, runs, budget, limits, nextTok, issued, raced,
                   sendVars, coordVars, viewVars, lateVars>>

\* tracker: the database runs the update in one step (or fails, which the
\* handler does not look at) and the pixel or the redirect is answered
TrackUpdate(b) ==
    /\ beacons[b].pc = "update"
    /\ \E failed \in BOOLEAN :
         /\ email_logs' = IF failed THEN email_logs
                          ELSE UpdateStamp(email_logs, beacons[b].logId,
                                           StampColumn(beacons[b].type),
                                           beacons[b].stamp)
         /\ beacons' = [beacons EXCEPT ![b].pc = IF failed THEN "ignored" ELSE "done",
                                       ![b].status =
                                           IF beacons[b].type = "open" THEN 200 ELSE 302]
    /\ UNCHANGED <<account, config, now, inbox, sentbox, sentFolders, arrived, replies,
                   inv, runs, budget, limits, nextTok, issued, raced,
                   sendVars, coordVars, viewVars, lateVars>>

NextTrack == \E b \in Beacons : TrackReceive(b) \/ TrackUpdate(b)

(* ------------------------- thread history ------------------------------ *)
OtherAddr == Addr("other@z.com", "lower")

\* a stored replies row: what the sync (type absent) or send-email (type
\* "sent") wrote; message_id is unique in the table
StoredReply(i, kind, at) ==
    [id |-> i, message_id |-> 300 + i,
     thread_id |-> CASE kind = "nothread" -> 0
                     [] kind \in {"lead", "unrelated"} -> 12
                     [] OTHER -> 11,
     lead_id |-> IF kind \in {"matched", "lead"} THEN "L1" ELSE Null,
     from_email |-> CASE kind = "sent" -> MeAddr
                      [] kind \in {"cc", "unrelated"} -> OtherAddr
                      [] OTHER -> LeadAddr,
     to_email |-> IF kind = "sent" THEN LeadAddr ELSE MeAddr,
     received_at |-> at,
     type |-> IF kind = "sent" THEN "sent" ELSE Null]

ReplyKinds == {"matched", "nothread", "cc", "lead", "sent", "unrelated"}

\* a stored email_logs row: written by send-email next to replies row 1
\* ("paired": same message_id), by an earlier send, by the sent-folder sync
\* (no thread id; "undated": the message has no Date header, sent_at is
\* null) or left by a send that failed
StoredLog(kind, at) ==
    [id |-> 1, message_id |-> IF kind = "paired" THEN 301 ELSE 401,
     thread_id |-> IF kind = "synced" THEN 0 ELSE 11,
     lead_id |-> IF kind \in {"synced", "failed"} THEN "L1" ELSE Null,
     status |-> IF kind = "failed" THEN "Failed" ELSE "Sent",
     sent_at |-> IF kind = "undated" THEN NoTime ELSE at, opened_at |-> NoTime, clicked_at |-> NoTime]

LogKinds == {"sent", "paired", "synced", "failed"}

Stamps == {1, 2}

ReplyTables ==
    UNION {{[i \in 1..n |-> StoredReply(i, k[i], t[i])] :
               k \in [1..n -> ReplyKinds], t \in [1..n -> Stamps]} : n \in 0..MaxRows}

LogTables ==
    {<<>>, <<StoredLog("undated", 1)>>}
    \cup {<<StoredLog(k, t)>> : k \in LogKinds, t \in Stamps}

\* the arguments of a fetchThreadHistory call
ThreadQueries ==
    [threadId : {0, 11}, leadId : {Null, "L1"},
     fromEmail : {NoAddr, LeadAddr}, toEmail : {NoAddr, MeAddr}]

\* isValidId: id && id !== 'undefined' && id !== 'null' && id !== ''
\* for a thread id (a number, 0: none) and for a lead id (a string)
IsValidThreadId(id) == id # 0
IsValidLeadId(id) == id \notin {Null, "undefined", ""}

\* rows left in the order they come in
OrderByKeep(rows, column) == rows

\* .order(column, { ascending: true }); rows with equal keys keep their
\* storage order. Array.prototype.sort with a difference comparator is the
\* same stable ascending sort; new Date(null) is the epoch, before every
\* stored timestamp, as NoTime is.
RECURSIVE OrderBy(_, _)
OrderBy(rows, column) ==
    IF rows = <<>> THEN <<>>
    ELSE LET n == Len(rows)
             sorted == OrderBy(SubSeq(rows, 1, n - 1), column)
             e == rows[n]
             k == Cardinality({i \in DOMAIN sorted : sorted[i][column] <= e[column]})
         IN  SubSeq(sorted, 1, k) \o <<e>> \o SubSeq(sorted, k + 1, Len(sorted))

\* a timeline entry: the row, its type and its timestamp
Entry(row, type, timestamp) == [row |-> row, type |-> type, timestamp |-> timestamp]

\* unibox.js: the email_logs rows with status Sent of the lead or the thread
SentLogs(table, q, failed) ==
    IF failed THEN <<>>
    ELSE OrderBy(SelectSeq(table, LAMBDA r :
                    /\ \/ (q.leadId # Null /\ r.lead_id = q.leadId)
                       \/ (q.threadId # 0 /\ r.thread_id = q.threadId)
                    /\ r.status = "Sent"), "sent_at")

\* unibox.js fetchThreadHistory(threadId, leadId); a query that fails is
\* logged and counts as empty
FetchThreadHistory(tReplies, tLogs, q, failed) ==
    IF q.threadId = 0 /\ q.leadId = Null THEN <<>>
    ELSE LET rows == IF "replies" \in failed THEN <<>>
                     ELSE OrderBy(SelectSeq(tReplies, LAMBDA r :
                            \/ (q.threadId # 0 /\ r.thread_id = q.threadId)
                            \/ (q.leadId # Null /\ r.lead_id = q.leadId)), "received_at")
             sentLogs == SentLogs(tLogs, q, "email_logs" \in failed)
             merged ==
                 [i \in DOMAIN rows |-> Entry(rows[i], "received", rows[i].received_at)]
                 \o [i \in DOMAIN sentLogs |->
                        Entry(sentLogs[i], "sent", sentLogs[i].sent_at)]
         IN  OrderBy(merged, "timestamp")

\* app.js: the filter of the first replies query
PrimaryFilter(r, q) ==
    IF IsValidThreadId(q.threadId) /\ IsValidLeadId(q.leadId)
    THEN r.thread_id = q.threadId \/ r.lead_id = q.leadId
    ELSE IF IsValidThreadId(q.threadId) THEN r.thread_id = q.threadId
    ELSE IF IsValidLeadId(q.leadId) THEN r.lead_id = q.leadId
    ELSE TRUE

\* app.js: the filter of the participant query over emails = [from, to]
\* without the empty ones
ParticipantFilter(r, emails) ==
    IF Len(emails) = 2
    THEN \/ (r.from_email = emails[1] /\ r.to_email = emails[2])
         \/ (r.from_email = emails[2] /\ r.to_email = emails[1])
    ELSE r.from_email = emails[1] \/ r.to_email = emails[1]

\* app.js addMessage over the rows in order: a row whose message_id (or id)
\* was seen is dropped
RECURSIVE AddMessages(_, _)
AddMessages(rows, seen) ==
    IF rows = <<>> THEN <<>>
    ELSE LET item == Head(rows)
             msgId == IF item.message_id # 0 THEN item.message_id ELSE item.id
         IN  IF msgId \in seen THEN AddMessages(Tail(rows), seen)
             ELSE <<Entry(item, IF item.type # Null THEN item.type ELSE "received",
                          item.received_at)>>
                  \o AddMessages(Tail(rows), seen \cup {msgId})

\* app.js fetchThreadHistory(threadId, leadId, fromEmail, toEmail): only the
\* replies table is read; with at most one row found and a participant known
\* the participant query's rows replace the ones found
FetchThreadHistoryWide(tReplies, q, failed) ==
    IF ~IsValidThreadId(q.threadId) /\ ~IsValidLeadId(q.leadId) /\ q.fromEmail = NoAddr
    THEN <<>>
    ELSE LET found == IF "replies" \in failed THEN <<>>
                      ELSE OrderBy(SelectSeq(tReplies, LAMBDA r : PrimaryFilter(r, q)),
                                   "received_at")
             emails == SelectSeq(<<q.fromEmail, q.toEmail>>, LAMBDA e : e # NoAddr)
             allReplies ==
                 IF Len(found) <= 1 /\ emails # <<>> /\ "participants" \notin failed
                 THEN OrderBy(SelectSeq(tReplies, LAMBDA r : ParticipantFilter(r, emails)),
                              "received_at")
                 ELSE found
         IN  OrderBy(AddMessages(allReplies, {}), "timestamp")

NoView == [pc |-> "idle", page |-> "", q |-> [threadId |-> 0, leadId |-> Null,
           fromEmail |-> NoAddr, toEmail |-> NoAddr], failed |-> {}, result |-> <<>>]

\* the unibox page opens a conversation
RenderConversation ==
    /\ view.pc = "idle"
    /\ \E q \in ThreadQueries, failed \in SUBSET {"replies", "email_logs"} :
         /\ q.fromEmail = NoAddr /\ q.toEmail = NoAddr
         /\ view' = [pc |-> "shown", page |-> "unibox", q |-> q, failed |-> failed,
                     result |-> FetchThreadHistory(replies, email_logs, q, failed)]
    /\ UNCHANGED <<syncVars, sendVars, coordVars, trackVars, lateVars>>

\* the conversation module opens a conversation
RenderConversationWide ==
    /\ view.pc = "idle"
    /\ \E q \in ThreadQueries, failed \in SUBSET {"replies", "participants"} :
         /\ view' = [pc |-> "shown", page |-> "app", q |-> q, failed |-> failed,
                     result |-> FetchThreadHistoryWide(replies, q, failed)]
    /\ UNCHANGED <<syncVars, sendVars, coordVars, trackVars, lateVars>>

NextThread == RenderConversation \/ RenderConversationWide

(* ----------------------------- sent copy ------------------------------- *)
\* the Message-ID header the provider gives a message it sent, as the IMAP
\* envelope shows it: an identifier of another kind than the API's message id
EnvelopeId(n) == 1000 + n

\* the provider files the copy of an accepted message in the sent folder
FileSent ==
    /\ \E n \in FirstId..(nextId - 1) :
         /\ \A i \in DOMAIN sentbox : sentbox[i].messageId # EnvelopeId(n)
         /\ sentbox' = Append(sentbox, [uid |-> Len(sentbox) + 1,
                                        messageId |-> EnvelopeId(n),
                                        to |-> LeadAddr, envOk |-> TRUE])
    /\ UNCHANGED <<account, config, now, inbox, sentFolders, arrived, replies, email_logs,
                   inv, runs, budget, limits, nextTok, issued, raced, sendVars, otherVars>>

NextSentCopy == NextSync \/ NextSend \/ FileSent

(* ----------------------------- read state ------------------------------ *)
\* markAsRead(replyId) when a conversation is opened: .update({ is_read: true })
\* on that replies row
MarkAsRead(i) ==
    /\ i \in DOMAIN replies
    /\ ~replies[i].is_read
    /\ replies' = [replies EXCEPT ![i].is_read = TRUE]
    /\ UNCHANGED <<account, config, now, inbox, sentbox, sentFolders, arrived,
                   email_logs, inv, runs, budget, limits, nextTok, issued, raced,
                   sendVars, otherVars>>

NextRead == NextSync \/ \E i \in 1..InboxCap : MarkAsRead(i)

(* --------------------------- list refresh ------------------------------ *)
Refreshes == 1..MaxChanges

IdleRefresh == [pc |-> "idle", data |-> 0]

\* a row of replies or email_logs changes and the channel's handler calls
\* refreshAll(), which sends its queries; calls are numbered as they start
ChangeNotify(r) ==
    /\ refreshes[r].pc = "idle"
    /\ \A q \in 1..(r - 1) : refreshes[q].pc # "idle"
    /\ changes' = changes + 1
    /\ refreshes' = [refreshes EXCEPT ![r].pc = "fetching"]
    /\ UNCHANGED <<syncVars, sendVars, coordVars, trackVars, viewVars, statusVars, oauthVars, shown>>

\* fetchMessages(activeFilters) of one call reads the storage
RefreshFetch(r) ==
    /\ refreshes[r].pc = "fetching"
    /\ refreshes' = [refreshes EXCEPT ![r].pc = "fetched", ![r].data = changes]
    /\ UNCHANGED <<syncVars, sendVars, coordVars, trackVars, viewVars, statusVars,
                   oauthVars, changes, shown>>

\* renderThreadList(messages): this.replies = messages
RenderThreadList(list, r, data) == data

\* the await of one call resolves and its messages are rendered
RefreshRender(r) ==
    /\ refreshes[r].pc = "fetched"
    /\ shown' = RenderThreadList(shown, r, refreshes[r].data)
    /\ refreshes' = [refreshes EXCEPT ![r].pc = "done"]
    /\ UNCHANGED <<syncVars, sendVars, coordVars, trackVars, viewVars, statusVars, oauthVars, changes>>

NextRefresh == \E r \in Refreshes : ChangeNotify(r) \/ RefreshFetch(r) \/ RefreshRender(r)

(* --------------------------- oauth callback ---------------------------- *)
Callbacks == 1..MaxCallbacks

\* the user the state parameter's token belongs to
UserId == "U1"

\* addresses the userinfo endpoint may report for the consenting Google account
GmailAddresses == {MeAddr, OtherAddr}

IdleCallback == [pc |-> "idle", gmailAddress |-> NoAddr, existing |-> 0, redirect |-> ""]

\* an email_accounts row: id, owner, address and the stored access token
\* (the number of the callback that wrote it; 0: written before)
AccountRow(id, address, tok) ==
    [id |-> id, user_id |-> UserId, email_address |-> address, oauth_access_token |-> tok]

\* the table when the callbacks arrive: empty, or holding the user's row for
\* one of the addresses
AccountTables == {<<>>, <<AccountRow(1, MeAddr, 0)>>, <<AccountRow(1, OtherAddr, 0)>>}

\* .eq("user_id", user.id).eq("email_address", gmailAddress)
MatchingAccounts(table, address) ==
    {i \in DOMAIN table : table[i].user_id = UserId /\ table[i].email_address = address}

\* .select("id") ... .maybeSingle(): the id of the only matching row; no row,
\* or more than one (an error the handler does not read), gives no data
MaybeSingle(table, address) ==
    LET m == MatchingAccounts(table, address)
    IN  IF Cardinality(m) = 1 THEN table[CHOOSE i \in m : TRUE].id ELSE 0

\* the request arrives; the session check, the code exchange and the
\* userinfo call either fail (error redirect) or give the Gmail address
CallbackReceive(c) ==
    /\ cbs[c].pc = "idle"
    /\ \/ cbs' = [cbs EXCEPT ![c].pc = "done", ![c].redirect = "error"]
       \/ \E a \in GmailAddresses :
            cbs' = [cbs EXCEPT ![c].pc = "select", ![c].gmailAddress = a]
    /\ UNCHANGED <<syncVars, sendVars, coordVars, trackVars, viewVars, statusVars,
                   listVars, email_accounts>>

\* the duplicate check reads the table
CallbackSelect(c) ==
    /\ cbs[c].pc = "select"
    /\ LET id == MaybeSingle(email_accounts, cbs[c].gmailAddress)
       IN cbs' = [cbs EXCEPT ![c].existing = id,
                             ![c].pc = IF id # 0 THEN "update" ELSE "insert"]
    /\ UNCHANGED <<syncVars, sendVars, coordVars, trackVars, viewVars, statusVars,
                   listVars, email_accounts>>

\* if (existing): the tokens of that row are replaced, success redirect
CallbackUpdate(c) ==
    /\ cbs[c].pc = "update"
    /\ email_accounts' =
         [i \in DOMAIN email_accounts |->
            IF email_accounts[i].id = cbs[c].existing
            THEN [email_accounts[i] EXCEPT !.oauth_access_token = c]
            ELSE email_accounts[i]]
    /\ cbs' = [cbs EXCEPT ![c].pc = "done", ![c].redirect = "success"]
    /\ UNCHANGED <<syncVars, sendVars, coordVars, trackVars, viewVars, statusVars, listVars>>

\* otherwise a new row is inserted under a fresh id (the table declares no
\* uniqueness over user_id and email_address); an insert error redirects
\* with the error
CallbackInsert(c) ==
    /\ cbs[c].pc = "insert"
    /\ \/ /\ email_accounts' =
               Append(email_accounts,
                      AccountRow(Len(email_accounts) + 1, cbs[c].gmailAddress, c))
          /\ cbs' = [cbs EXCEPT ![c].pc = "done", ![c].redirect = "success"]
       \/ /\ cbs' = [cbs EXCEPT ![c].pc = "done", ![c].redirect = "error"]
          /\ UNCHANGED email_accounts
    /\ UNCHANGED <<syncVars, sendVars, coordVars, trackVars, viewVars, statusVars, listVars>>

NextCallback ==
    \E c \in Callbacks :
        CallbackReceive(c) \/ CallbackSelect(c) \/ CallbackUpdate(c) \/ CallbackInsert(c)

(* --------------------------- status change ----------------------------- *)
\* ids of the replies rows a conversation may show (0: the message has none)
ReplyIds == {1}

Lead(id, email) == [id |-> id, email |-> email, status |-> "New"]

\* the leads table: empty, the lead stored under the sender's address (as
\* written or in mixed case), under the account's own address, or only an
\* unrelated lead
LeadTables ==
    {<<>>,
     <<Lead("L1", LeadAddr)>>,
     <<Lead("L1", Addr("lead@y.com", "mixed"))>>,
     <<Lead("L3", MeAddr)>>,
     <<Lead("L2", OtherAddr)>>,
     <<Lead("L2", OtherAddr), Lead("L1", LeadAddr)>>}

\* the message whose status dropdown is used
StatusMsgs ==
    [id : {0, 1}, lead_id : {Null, "L1"},
     from_email : {NoAddr, LeadAddr}, to_email : {NoAddr, MeAddr}]

IdleChg == [pc |-> "idle", msg |-> [id |-> 0, lead_id |-> Null, from_email |-> NoAddr,
                                    to_email |-> NoAddr],
            newStatus |-> "", leadId |-> Null, looked |-> "", toast |-> ""]

\* email.ilike.<address>: equal without regard to case (the addresses hold
\* no pattern characters)
Ilike(email, e) == ToLowerCase(email) = ToLowerCase(e)

\* a lookup that finds no lead whatever the table holds
FindNoLead(table, from, to) == {}

\* findLeadIdByEmail(from, to): the ids .or(...).limit(1).maybeSingle() may
\* return, over the non-empty addresses in lower case
FindLeadIdByEmail(table, from, to) ==
    LET valid == {ToLowerCase(e) : e \in {from, to} \ {NoAddr}}
    IN  {table[i].id : i \in {j \in DOMAIN table :
                                 \E e \in valid : Ilike(table[j].email, e)}}

\* the change handler starts: msg.lead_id is used when the message has one
StatusChange ==
    /\ chg.pc = "idle"
    /\ \E m \in StatusMsgs, st \in {"Interested", "Lost"} :
         chg' = [chg EXCEPT !.msg = m, !.newStatus = st, !.leadId = m.lead_id,
                            !.pc = IF m.lead_id # Null THEN "update" ELSE "lookup"]
    /\ UNCHANGED <<syncVars, sendVars, coordVars, trackVars, viewVars, leads, tags, listVars, oauthVars>>

\* findLeadIdByEmail answers: a query error is logged and counts as no lead;
\* a lead found is cached on the message
StatusLookup ==
    /\ chg.pc = "lookup"
    /\ LET found == FindLeadIdByEmail(leads, chg.msg.from_email, chg.msg.to_email)
       IN \/ /\ found # {}
             /\ \E id \in found :
                  chg' = [chg EXCEPT !.leadId = id, !.msg.lead_id = id,
                                     !.looked = "found", !.pc = "update"]
          \/ /\ found = {}
             /\ chg' = [chg EXCEPT !.looked = "none", !.pc = "tag"]
          \/ /\ chg.msg.from_email # NoAddr \/ chg.msg.to_email # NoAddr
             /\ chg' = [chg EXCEPT !.looked = "error", !.pc = "tag"]
    /\ UNCHANGED <<syncVars, sendVars, coordVars, trackVars, viewVars, leads, tags, listVars, oauthVars>>

\* tagReplyWithStatus(msg.id, newStatus): false without an id or on an error
StatusTag ==
    /\ chg.pc = "tag"
    /\ \E failed \in BOOLEAN :
         IF chg.msg.id = 0 \/ failed
         THEN /\ chg' = [chg EXCEPT !.pc = "done", !.toast = "warn"]
              /\ UNCHANGED tags
         ELSE /\ tags' = [tags EXCEPT ![chg.msg.id] = chg.newStatus]
              /\ chg' = [chg EXCEPT !.pc = "done", !.toast = "tagged"]
    /\ UNCHANGED <<syncVars, sendVars, coordVars, trackVars, viewVars, leads, listVars, oauthVars>>

\* updateLeadStatus(leadId, newStatus): an error is thrown and shown
StatusUpdate ==
    /\ chg.pc = "update"
    /\ \E failed \in BOOLEAN :
         IF failed
         THEN /\ chg' = [chg EXCEPT !.pc = "done", !.toast = "error"]
              /\ UNCHANGED leads
         ELSE /\ leads' = [i \in DOMAIN leads |->
                             IF leads[i].id = chg.leadId
                             THEN [leads[i] EXCEPT !.status = chg.newStatus]
                             ELSE leads[i]]
              /\ chg' = [chg EXCEPT !.pc = "done", !.toast = "updated"]
    /\ UNCHANGED <<syncVars, sendVars, coordVars, trackVars, viewVars, tags, listVars, oauthVars>>

NextStatus == StatusChange \/ StatusLookup \/ StatusTag \/ StatusUpdate

(* ----------------------------- accounts -------------------------------- *)
\* a connected Gmail account (OAuth) whose cached token expires at `exp`
GmailAccount(tok, exp) ==
    [id |-> "A", user_id |-> "u1", provider |-> "Gmail", email_address |-> MeAddr,
     refresh_token |-> "rt", access_token |-> tok, expires_at |-> exp,
     imap_password |-> Null, last_synced_at |-> NoTime]

\* a generic IMAP account
ImapAccount(pw) ==
    [id |-> "A", user_id |-> "u1", provider |-> "Other", email_address |-> MeAddr,
     refresh_token |-> Null, access_token |-> NoTok, expires_at |-> NoTime,
     imap_password |-> pw, last_synced_at |-> NoTime]

InitCommon ==
    /\ now = 0
    /\ arrived = 0
    /\ replies = <<>>
    /\ email_logs = <<>>
    /\ inv = [s \in Sessions |-> IdleInv(account)]
    /\ runs = [s \in Sessions |-> 0]
    /\ nextTok = 1
    /\ issued = {}
    /\ raced = FALSE

InitSendIdle ==
    /\ history = <<>>
    /\ cli = IdleCli
    /\ srv = IdleSrv
    /\ calls = <<>>
    /\ logIds = {}
    /\ sends = 0
    /\ toast = ""
    /\ nextId = FirstId
    /\ nextLog = 1

\* the message the sync specifications leave selected
NoSelection ==
    [email_account_id |-> Null, thread_id |-> NoThread, message_id |-> 0,
     from_email |-> NoAddr, histFrom |-> NoAddr]

\* a scenario: the account, the configuration, the mailbox and what the
\* sessions request
Scn(acc, cfg, inb, snt, folders, b1, b2, lims) ==
    [account |-> acc, config |-> cfg, inbox |-> inb, sentbox |-> snt,
     sentFolders |-> folders, budget |-> [s \in Sessions |-> IF s = "s1" THEN b1 ELSE b2],
     limits |-> lims]

InitScn(S) ==
    /\ \E sc \in S :
         /\ account = sc.account
         /\ config = sc.config
         /\ inbox = sc.inbox
         /\ sentbox = sc.sentbox
         /\ sentFolders = sc.sentFolders
         /\ budget = sc.budget
         /\ limits = sc.limits
    /\ InitCommon

InitStatusIdle ==
    /\ leads = <<>>
    /\ tags = [i \in ReplyIds |-> ""]
    /\ chg = IdleChg

InitListIdle ==
    /\ changes = 0
    /\ refreshes = [r \in Refreshes |-> IdleRefresh]
    /\ shown = 0

InitOauthIdle ==
    /\ email_accounts = <<>>
    /\ cbs = [c \in Callbacks |-> IdleCallback]

InitRest ==
    /\ beacons = [b \in Beacons |-> IdleBeacon]
    /\ view = NoView
    /\ InitStatusIdle
    /\ InitListIdle
    /\ InitOauthIdle

InitOther ==
    /\ InitCoordIdle
    /\ budgetUi = 0
    /\ InitRest

InitFrom(S) ==
    /\ InitScn(S)
    /\ msg = NoSelection
    /\ InitSendIdle
    /\ InitOther

TenMin == 10 * 60 * 1000
GmailSent == {"[Gmail]/Sent Mail"}

\* two client sessions syncing one account concurrently, one session syncing
\* it repeatedly, and the accounts whose credentials cannot be resolved
SyncScenarios ==
    {Scn(GmailAccount(0, TenMin), "env", MkInbox(InboxSmall, 2, k),
         MkSent(SentSize, 0, "ok"), GmailSent, 1, 1, {FocusLimit, DefaultLimit}) :
       k \in {"ok", "badenv", "unparseable", "selfMixed"}}
    \cup {Scn(ImapAccount("pw"), "env", MkInbox(InboxSmall, 0, "ok"),
              MkSent(SentSize, 1, k), f, 1, 1, {DefaultLimit}) :
            k \in SentKinds, f \in {{"Sent"}, {}}}
    \cup {Scn(GmailAccount(0, TenMin), "env", MkInbox(InboxSmall, 0, "ok"),
              MkSent(SentSize, 0, "ok"), {"Sent"}, MaxRuns, 0, Limits)}
    \cup {Scn(GmailAccount(0, 0), c, MkInbox(InboxSmall, 0, "ok"),
              MkSent(SentSize, 0, "ok"), GmailSent, 1, 1, {DefaultLimit}) :
            c \in {"env", "missing"}}
    \cup {Scn(ImapAccount(Null), "env", MkInbox(InboxSmall, 0, "ok"),
              MkSent(SentSize, 0, "ok"), {"Sent"}, 1, 1, {DefaultLimit})}

Init == InitFrom(SyncScenarios)

Spec == Init /\ [][NextSync]_vars

(* ------------------- full-window and token scenarios ------------------- *)
\* one session syncing a full window in which one message is special
WindowScenarios ==
    {Scn(GmailAccount(0, 0), "env", MkInbox(InboxFull, p, k),
         MkSent(SentSize, 0, "ok"), GmailSent, 1, 0, {DefaultLimit}) :
       p \in 1..InboxFull, k \in InboxKinds}
    \cup {Scn([GmailAccount(0, 0) EXCEPT !.email_address = Addr("me@x.com", "mixed")],
              "env", MkInbox(InboxFull, InboxFull, k),
              MkSent(SentSize, 0, "ok"), GmailSent, 1, 0, {DefaultLimit}) :
            k \in {"self", "selfMixed"}}

SpecWindow == InitFrom(WindowScenarios) /\ [][NextSync]_vars

FourMin == 4 * 60 * 1000

\* two sessions syncing a Gmail account whose cached access token is absent,
\* inside the safety margin, on it, just beyond it or well beyond it
\* (the mailbox plays no part in token resolution: the INBOX is as short as
\* the sent folder)
TokenScenarios ==
    {Scn(GmailAccount(0, e), c, MkInbox(SentSize, 0, "ok"),
         MkSent(SentSize, 0, "ok"), GmailSent, 1, 1, {DefaultLimit}) :
       e \in {FourMin, MarginMs, MarginMs + 1, TenMin}, c \in {"env", "app_config", "missing"}}
    \cup {Scn(GmailAccount(NoTok, NoTime), c, MkInbox(SentSize, 0, "ok"),
              MkSent(SentSize, 0, "ok"), GmailSent, 1, 1, {DefaultLimit}) :
            c \in {"env", "app_config", "missing"}}

SpecToken == InitFrom(TokenScenarios) /\ [][NextSync]_vars

(* --------------------------- send scenarios ---------------------------- *)
\* the selected message: its account (own, foreign, none), its thread id and
\* whether a recipient can be determined
ReplyMsgs ==
    {[email_account_id |-> a, thread_id |-> t, message_id |-> 1,
      from_email |-> f, histFrom |-> h] :
        a \in {"A", "B", Null}, t \in Threads,
        f \in {LeadAddr, NoAddr}, h \in {LeadAddr, NoAddr}}

InitSend ==
    /\ account \in {GmailAccount(0, 0), ImapAccount("pw")}
    /\ config = "env"
    /\ inbox = <<>>
    /\ sentbox = <<>>
    /\ sentFolders = {}
    /\ budget = [s \in Sessions |-> 0]
    /\ limits = {DefaultLimit}
    /\ InitCommon
    /\ msg \in ReplyMsgs
    /\ InitSendIdle
    /\ InitOther

SpecSend == InitSend /\ [][NextSend]_vars

(* ------------------------ ownership scenarios -------------------------- *)
\* one sync and the reply editor working on the account of user u1, each
\* request made by u1 or by another user
OwnerScenarios ==
    {Scn(GmailAccount(0, 0), "env", MkInbox(SentSize, 0, "ok"),
         MkSent(SentSize, 0, "ok"), GmailSent, 1, 0, {DefaultLimit})}

OwnerMsgs ==
    {[email_account_id |-> "A", thread_id |-> t, message_id |-> 1,
      from_email |-> LeadAddr, histFrom |-> NoAddr] :
        t \in {Thread(13, TRUE, TRUE, FALSE), Thread(14, TRUE, TRUE, TRUE)}}

InitOwner ==
    /\ InitScn(OwnerScenarios)
    /\ msg \in OwnerMsgs
    /\ InitSendIdle
    /\ InitOther

NextOwner == NextSync \/ NextSend

SpecOwner == InitOwner /\ [][NextOwner]_vars

(* ----------------------- coordinator scenarios ------------------------- *)
\* the unibox page of a user with two connected accounts
InitCoord ==
    /\ InitScn({Scn(GmailAccount(0, 0), "env", <<>>, <<>>, {}, 0, 0, {DefaultLimit})})
    /\ msg = NoSelection
    /\ InitSendIdle
    /\ InitCoordIdle
    /\ budgetUi = MaxEvents
    /\ InitRest

SpecCoord == InitCoord /\ [][NextCoord]_vars

(* ------------------------- tracker scenarios --------------------------- *)
\* the log rows of two sent messages, neither opened nor clicked yet
TrackedLogs ==
    <<SentLogRow([IdleSrv EXCEPT !.logId = 1, !.accountId = "A",
                                 !.sendData = SendData(NoThread, "", FirstId)]),
      SentLogRow([IdleSrv EXCEPT !.logId = 2, !.accountId = "A",
                                 !.sendData = SendData(NoThread, "", FirstId + 1)])>>

InitTrack ==
    /\ \E sc \in {Scn(GmailAccount(0, 0), "env", <<>>, <<>>, {}, 0, 0, {DefaultLimit})} :
         /\ account = sc.account
         /\ config = sc.config
         /\ inbox = sc.inbox
         /\ sentbox = sc.sentbox
         /\ sentFolders = sc.sentFolders
         /\ budget = sc.budget
         /\ limits = sc.limits
    /\ now = 1
    /\ arrived = 0
    /\ replies = <<>>
    /\ email_logs = TrackedLogs
    /\ inv = [s \in Sessions |-> IdleInv(account)]
    /\ runs = [s \in Sessions |-> 0]
    /\ nextTok = 1
    /\ issued = {}
    /\ raced = FALSE
    /\ msg = NoSelection
    /\ InitSendIdle
    /\ InitOther

SpecTrack == InitTrack /\ [][NextTrack]_vars

(* ------------------------- thread scenarios ---------------------------- *)
InitThread ==
    /\ \E sc \in {Scn(GmailAccount(0, 0), "env", <<>>, <<>>, {}, 0, 0, {DefaultLimit})} :
         /\ account = sc.account
         /\ config = sc.config
         /\ inbox = sc.inbox
         /\ sentbox = sc.sentbox
         /\ sentFolders = sc.sentFolders
         /\ budget = sc.budget
         /\ limits = sc.limits
    /\ now = 0
    /\ arrived = 0
    /\ replies \in ReplyTables
    /\ email_logs \in LogTables
    /\ inv = [s \in Sessions |-> IdleInv(account)]
    /\ runs = [s \in Sessions |-> 0]
    /\ nextTok = 1
    /\ issued = {}
    /\ raced = FALSE
    /\ msg = NoSelection
    /\ InitSendIdle
    /\ InitOther

SpecThread == InitThread /\ [][NextThread]_vars

\* a reply is sent from the account while its mailbox is synced
SpecSentCopy == InitOwner /\ [][NextSentCopy]_vars

(* -------------------------- read scenarios ----------------------------- *)
\* two syncs of one mailbox, one after or beside the other, while the user
\* opens conversations
ReadScenarios ==
    {Scn(GmailAccount(0, 0), "env", MkInbox(SentSize, 0, "ok"),
         MkSent(SentSize, 0, "ok"), GmailSent, 1, 1, {DefaultLimit})}

SpecRead == InitFrom(ReadScenarios) /\ [][NextRead]_vars

(* ------------------------- status scenarios ---------------------------- *)
\* everything but the storage and the pages' own state, at rest
InitQuiet ==
    /\ InitScn({Scn(GmailAccount(0, 0), "env", <<>>, <<>>, {}, 0, 0, {DefaultLimit})})
    /\ msg = NoSelection
    /\ InitSendIdle
    /\ InitCoordIdle
    /\ budgetUi = 0
    /\ beacons = [b \in Beacons |-> IdleBeacon]
    /\ view = NoView

InitStatus ==
    /\ InitQuiet
    /\ leads \in LeadTables
    /\ tags = [i \in ReplyIds |-> ""]
    /\ chg = IdleChg
    /\ InitListIdle
    /\ InitOauthIdle

(* ------------------------- refresh scenarios --------------------------- *)
InitRefresh ==
    /\ InitQuiet
    /\ InitStatusIdle
    /\ InitListIdle
    /\ InitOauthIdle

SpecRefresh == InitRefresh /\ [][NextRefresh]_vars

SpecStatus == InitStatus /\ [][NextStatus]_vars

(* ------------------------ callback scenarios --------------------------- *)
InitCallback ==
    /\ InitQuiet
    /\ InitStatusIdle
    /\ InitListIdle
    /\ email_accounts \in AccountTables
    /\ cbs = [c \in Callbacks |-> IdleCallback]

SpecCallback == InitCallback /\ [][NextCallback]_vars

(* ------------------------------ claims --------------------------------- *)
Done(s) == inv[s].pc = "done"
FullSuccess(s) == Done(s) /\ inv[s].resp.status = 200 /\ ~inv[s].resp.partial

\* C1: however many syncs of the account have run, over whatever overlapping
\* windows, replies and email_logs hold at most one row per provider message id.
C1_NoDuplicateRows ==
    /\ \A m \in StoredIds(replies) : CountId(replies, m) <= 1
    /\ \A m \in StoredIds(email_logs) : CountId(email_logs, m) <= 1

\* a repeated sync finished whose window held messages an earlier sync stored
C1_Witness ==
    \E s \in Sessions :
        /\ runs[s] >= 2 /\ FullSuccess(s)
        /\ inv[s].known \cap inv[s].pushed # {}
        /\ email_logs # <<>>

\* C2: when two sessions sync the account concurrently, every message id a
\* completed sync fetched and batched is in storage exactly once, whatever the
\* interleaving of the batch writes.
C2_ConcurrentExactlyOnce ==
    \A s \in Sessions :
        FullSuccess(s) =>
            \A m \in inv[s].pushed : CountId(replies, m) + CountId(email_logs, m) = 1

\* both syncs completed after their batch writes interleaved on common messages
C2_Witness ==
    /\ raced
    /\ \A s \in Sessions : FullSuccess(s)
    /\ inv["s1"].pushed \cap inv["s2"].pushed # {}

\* C3 (as claimed): a completed sync of a 10-message window whose message 7 does
\* not parse stores the other nine, not message 7, and reports partial:true
\* with exactly one error entry for message 7.
C3_ParseFailureReported ==
    \A s \in Sessions :
        (/\ Done(s) /\ inv[s].resp.status = 200 /\ "error" \notin inv[s].resp.fields
         /\ Len(inv[s].seen) = 10
         /\ inv[s].seen[7].source = "unparseable")
        => /\ \A i \in 1..10 :
                CountId(replies, inv[s].seen[i].messageId) = IF i = 7 THEN 0 ELSE 1
           /\ inv[s].resp.partial
           /\ "errors" \in inv[s].resp.fields
           /\ Len(inv[s].errors) = 1

\* the part of C3 the code does keep: nine stored, message 7 not stored
C3_StoredNine ==
    \A s \in Sessions :
        (/\ Done(s) /\ inv[s].resp.status = 200 /\ "error" \notin inv[s].resp.fields
         /\ Len(inv[s].seen) = 10
         /\ inv[s].seen[7].source = "unparseable")
        => /\ \A i \in 1..10 :
                CountId(replies, inv[s].seen[i].messageId) = IF i = 7 THEN 0 ELSE 1
           /\ inv[s].resp.inbox = 9

\* C4 (as claimed): an error after at least one processed message gives a
\* successful result with count > 0, partial set and the list of per-item
\* error strings attached, never a fatal error.
C4_PartialCarriesErrorList ==
    \A s \in Sessions :
        (/\ Done(s) /\ "error" \in inv[s].resp.fields
         /\ inv[s].inboxProcessed + inv[s].sentProcessed > 0)
        => /\ inv[s].resp.status = 200 /\ inv[s].resp.success
           /\ inv[s].resp.partial
           /\ inv[s].resp.inbox + inv[s].resp.sent > 0
           /\ "errors" \in inv[s].resp.fields

\* the part of C4 the code does keep
C4_PartialIsSuccess ==
    \A s \in Sessions :
        (/\ Done(s) /\ "error" \in inv[s].resp.fields
         /\ inv[s].inboxProcessed + inv[s].sentProcessed > 0)
        => /\ inv[s].resp.status = 200 /\ inv[s].resp.success
           /\ inv[s].resp.partial
           /\ inv[s].resp.inbox + inv[s].resp.sent > 0

CredentialErrors == {"AUTH_OAUTH_REFRESH_MISSING", "AUTH_REFRESH_FAILED",
                     "AUTH_PASSWORD_MISSING"}
ConnectivityErrors == {"CONN_FAILED"}

\* C5 (as claimed): a sync that fails with a credential error before any
\* message is processed answers 4xx, one that fails with a connectivity error
\* answers 5xx.
C5_CredentialIs4xx ==
    \A s \in Sessions :
        (Done(s) /\ inv[s].inboxProcessed + inv[s].sentProcessed = 0) =>
            /\ inv[s].resp.error \in CredentialErrors
                 => inv[s].resp.status \in 400..499
            /\ inv[s].resp.error \in ConnectivityErrors
                 => inv[s].resp.status \in 500..599

\* the part of C5 the code does keep
C5_ConnectivityIs5xx ==
    \A s \in Sessions :
        (Done(s) /\ inv[s].resp.error \in ConnectivityErrors)
            => inv[s].resp.status \in 500..599

\* getOAuthToken has run to its end (returned or thrown) in session s
Resolved(s) == inv[s].resolved # "" /\ inv[s].pc \notin {"load", "refresh"}
\* the token the call was given expires more than 5 minutes after now
ExpiresBeyondMargin(acc) ==
    acc.access_token # NoTok /\ acc.expires_at # NoTime /\ acc.expires_at >= now + MarginMs + 1

\* C6 (as claimed): resolveToken returns the cached token with no network call
\* when it expires more than 5 minutes ahead, and performs a refresh call when
\* it expires within the margin or is absent.
C6_RefreshWheneverStale ==
    \A s \in Sessions :
        Resolved(s) =>
            IF ExpiresBeyondMargin(inv[s].acct)
            THEN inv[s].refreshCalls = 0 /\ inv[s].authTok = inv[s].acct.access_token
            ELSE inv[s].refreshCalls = 1

\* C6 (amended): as claimed when the account has a refresh token and the OAuth
\* client id and secret are configured; without them a stale or absent token
\* makes the call throw without any refresh call.
C6_RefreshWhenStaleAndConfigured ==
    \A s \in Sessions :
        Resolved(s) =>
            IF ExpiresBeyondMargin(inv[s].acct)
            THEN inv[s].refreshCalls = 0 /\ inv[s].authTok = inv[s].acct.access_token
            ELSE IF inv[s].acct.refresh_token # Null /\ config # "missing"
            THEN inv[s].refreshCalls = 1
            ELSE /\ inv[s].refreshCalls = 0
                 /\ Done(s)
                 /\ inv[s].resp.error \in {"AUTH_CONFIG_MISSING", "AUTH_OAUTH_REFRESH_MISSING"}

\* one call refreshed a token 4 minutes from expiry, a later call then got the
\* refreshed token from the cache without a network call
C6_Witness ==
    \E s, o \in Sessions :
        /\ Resolved(s) /\ inv[s].acct.expires_at = FourMin /\ inv[s].refreshCalls = 1
        /\ Resolved(o) /\ inv[o].resolved = "cached" /\ inv[o].refreshCalls = 0
        /\ inv[o].authTok = inv[s].tok

Refreshed(s) ==
    /\ inv[s].resolved = "refresh" /\ inv[s].pc \notin {"load", "refresh", "persist"}
    /\ inv[s].resp.error # "AUTH_REFRESH_FAILED"

\* C7: however two resolveToken calls on a stale token interleave, each call
\* that refreshed returns the token of its refresh response, and the account
\* row then holds the access token and the expiry of one single response.
C7_TokenAndExpiryOfOneResponse ==
    /\ \A s \in Sessions :
          Refreshed(s) => /\ inv[s].authTok = inv[s].tok
                          /\ \E r \in issued : r.token = inv[s].authTok
    /\ (\E s \in Sessions : Refreshed(s)) =>
          \E r \in issued : /\ r.token = account.access_token
                            /\ r.expires_at = account.expires_at

\* both calls refreshed, got different expiries, and the response issued first
\* was persisted last
C7_Witness ==
    /\ \A s \in Sessions : Refreshed(s)
    /\ inv["s1"].tokExp # inv["s2"].tokExp
    /\ account.access_token = 1
    /\ Cardinality(issued) = 2

Last(q) == q[Len(q)]
\* email_logs rows written for the current logical send
SendRows == {i \in DOMAIN email_logs : email_logs[i].id \in logIds}
\* the send-email invocation is past its provider calls
PastProvider == srv.pc \in {"responded", "idle"}

\* C8: a send the provider rejects for an invalid thread id is retried exactly
\* once, without the thread id, and one logical send never makes a further
\* retry, also when the retry is rejected too.
C8_ExactlyOneRetryWithoutThread ==
    /\ Len(calls) <= 2
    /\ (calls # <<>> /\ IsInvalidThread(calls[1].error) /\ srv.pc # "retry")
         => Len(calls) = 2 /\ calls[2].threadId = NoThread
    /\ Len(calls) = 2 => IsInvalidThread(calls[1].error) /\ calls[1].threadId # NoThread

\* the handler has finished a send whose retry was rejected as well
C8_Witness ==
    /\ cli.pc = "idle" /\ srv.pc = "idle"
    /\ Len(calls) = 2 /\ calls[2].error # ""
    /\ cli.outcome = calls[2].error

\* C9: one logical send leaves at most one email_logs row; after a rejected
\* first attempt and an accepted retry that one row carries the message id of
\* the second attempt and its fresh thread id.
C9_OneRecordPerSend ==
    /\ Cardinality(SendRows) <= 1
    /\ \A i \in SendRows :
          /\ email_logs[i].message_id = Last(calls).id
          /\ email_logs[i].status = "Sent"
          /\ Len(calls) = 2 =>
                /\ email_logs[i].thread_id # calls[1].threadId.id
                /\ email_logs[i].thread_id = calls[2].id
    /\ \A i \in DOMAIN replies : CountId(replies, replies[i].message_id) = 1

\* a send finished whose first attempt was rejected and whose retry was accepted
C9_Witness ==
    /\ cli.pc = "idle" /\ cli.outcome = "sent"
    /\ Len(calls) = 2 /\ calls[2].error = ""
    /\ \E i \in SendRows : email_logs[i].message_id = calls[2].id

\* C10: when the provider rejects the send (the only attempt for a reason other
\* than the thread id, or the retry), the caller gets an error and neither a
\* Sent log row nor a conversation row is stored for that send.
C10_RejectedSendStoresNothing ==
    (calls # <<>> /\ Last(calls).error # "" /\ PastProvider) =>
        /\ srv.pc = "responded" =>
              srv.resp.status \notin 200..299 /\ srv.resp.error = Last(calls).error
        /\ (srv.pc = "idle" /\ cli.pc = "idle") => cli.outcome = Last(calls).error
        /\ SendRows = {}
        /\ \A i \in DOMAIN email_logs : email_logs[i].message_id \in FirstId..(nextId - 1)
        /\ \A i \in DOMAIN replies : replies[i].message_id \in FirstId..(nextId - 1)
        /\ Len(email_logs) <= nextId - FirstId
        /\ Len(replies) <= nextId - FirstId

\* a first send was stored, the second was rejected and answered with an error
C10_Witness ==
    /\ sends = 2 /\ srv.pc = "responded" /\ srv.resp.status = 500
    /\ Len(calls) = 1 /\ calls[1].error = "Quota exceeded"
    /\ Len(email_logs) = 1 /\ Len(replies) = 1

\* the send handler has finished a send that failed
SendHandlerFailed == cli.pc = "idle" /\ sends > 0 /\ cli.outcome \notin {"", "sent"}
\* the displayed history still holds the optimistic entry of the last send
TempEntryLeft == \E i \in DOMAIN history : history[i].message_id = cli.tempId

\* C11 (as claimed): once the send handler has finished a failed send, on
\* whatever path it failed after appending the optimistic entry, no entry
\* with the temporary id is left in the displayed history.
C11_OptimisticEntryRolledBack == SendHandlerFailed => ~TempEntryLeft

\* the part of C11 the code does keep: a send that failed in the invoke of
\* send-email has its optimistic entry removed
C11_RolledBackAfterInvoke ==
    (SendHandlerFailed /\ cli.invokes > 0) => ~TempEntryLeft

\* C12: a sync or a send that names an account of another user is rejected
\* before any mailbox connection, token refresh, provider send or storage
\* write is made for it.
C12_ForeignAccountRejectedFirst ==
    /\ \A s \in Sessions :
          (inv[s].pc # "idle" /\ inv[s].user # account.user_id) =>
              /\ inv[s].pc \in {"load", "done"}
              /\ Done(s) => inv[s].resp.error = "ACCOUNT_NOT_FOUND_OR_FORBIDDEN"
              /\ ~inv[s].conn /\ inv[s].refreshCalls = 0 /\ inv[s].lock = ""
              /\ inv[s].wrote = 0 /\ inv[s].batch = <<>> /\ inv[s].pushed = {}
    /\ (srv.pc # "idle" /\ srv.user # account.user_id) =>
          /\ srv.pc \in {"auth", "responded"}
          /\ srv.pc = "responded" => srv.resp.status \in {401, 403}
          /\ srv.tokenCalls = 0 /\ calls = <<>> /\ SendRows = {}
          /\ Cardinality({i \in DOMAIN replies : replies[i].type = "sent"})
                <= nextId - FirstId

\* a sync and a send of another user on the account have both been refused
C12_Witness ==
    /\ \E s \in Sessions :
          /\ Done(s) /\ inv[s].user # account.user_id
          /\ inv[s].resp.error = "ACCOUNT_NOT_FOUND_OR_FORBIDDEN"
    /\ srv.pc = "responded" /\ srv.user # account.user_id /\ srv.resp.status = 403

\* the sender of message m is the account's own address, whatever the case
FromSelf(m) == m.from.name = account.email_address.name

\* C13: an INBOX message whose sender equals the account's own address,
\* compared without regard to case, is never stored in replies.
C13_SelfMessageNeverStored ==
    /\ \A i \in DOMAIN replies : replies[i].from_email.name # account.email_address.name
    /\ \A i \in DOMAIN inbox : FromSelf(inbox[i]) => CountId(replies, inbox[i].messageId) = 0
    /\ \A s \in Sessions :
          inv[s].pc = "inboxLoop" =>
              \A i \in DOMAIN inv[s].batch :
                  inv[s].batch[i].from_email.name # account.email_address.name

\* a sync completed whose window held a message from the account's address in
\* another spelling than the account row's, and stored the others
C13_Witness ==
    \E s \in Sessions :
        /\ FullSuccess(s) /\ replies # <<>>
        /\ \E i \in DOMAIN inv[s].seen :
              /\ FromSelf(inv[s].seen[i])
              /\ inv[s].seen[i].from.case # account.email_address.case

\* C14: a folder lock (INBOX or the sent folder) is held only while its
\* window is being processed and is released on every way out, also when the
\* processing throws: no invocation ends holding a lock.
C14_LocksReleasedOnEveryExit ==
    \A s \in Sessions :
        /\ Done(s) => inv[s].lock = ""
        /\ inv[s].lock # "" => inv[s].pc \in {"inboxLoop", "sentLoop"}
        /\ inv[s].pc = "inboxLoop" => inv[s].lock = "INBOX"
        /\ inv[s].pc = "sentLoop" => inv[s].lock \in {"[Gmail]/Sent Mail", "Sent"}

\* an invocation ended by an exception thrown while the sent window was being
\* processed, after both folders had been locked
C14_Witness ==
    \E s \in Sessions :
        /\ Done(s) /\ inv[s].resp.partial /\ inv[s].resp.error = "FETCH_FAILED"
        /\ inv[s].inboxProcessed > 0 /\ inv[s].sentProcessed > 0
        /\ inv[s].window # <<>>
        /\ inv[s].lock = ""

\* C15 (as claimed): at most one sync per account is in flight at any time,
\* whatever started it.
C15_AtMostOneSyncPerAccount == \A a \in AccountIds : InFlightFor(a) <= 1

\* the part of C15 the code does keep: the flag is set exactly while a
\* runBackgroundSyncList call is in progress, and cleared on every exit path
C15_FlagClearedOnEveryExit == isSyncing <=> bg.pc # "idle"

\* C16 (as claimed): after a background sync of an account failed, the next
\* periodic cycle does not attempt that account again.
C16_FailedAccountCoolsDown == ~hammered

C18_ShowSyncsAndResubscribes ==
    lastShow.ran => /\ lastShow.started \/ lastShow.busy
                    /\ lastShow.limit = FocusLimit
                    /\ lastShow.live

\* the part of C18 the code does keep: a lightweight sync is started unless
\* one is running
C18_ShowTriggersSync ==
    lastShow.ran => /\ lastShow.started \/ lastShow.busy
                    /\ lastShow.limit = FocusLimit


\* the beacons of one type for one log row whose update the database ran
Applied(type, logId) ==
    {b \in Beacons : beacons[b].pc = "done" /\ beacons[b].status # 400
                     /\ beacons[b].type = type /\ beacons[b].logId = logId}

\* C19: for any logId, of any sequence of open beacons (and likewise click
\* beacons), sequential or concurrent, only the first sets opened_at
\* (respectively clicked_at): a timestamp that is stored is left unchanged by
\* every later beacon of that type.
C19_FirstBeaconWins ==
    [][\A i \in DOMAIN email_logs :
         /\ email_logs[i].opened_at # NoTime
              => email_logs'[i].opened_at = email_logs[i].opened_at
         /\ email_logs[i].clicked_at # NoTime
              => email_logs'[i].clicked_at = email_logs[i].clicked_at]_vars

\* C19, the first half: once the update of a beacon has run, the row carries
\* the timestamp of one of the beacons of that type
C19_FirstBeaconSets ==
    \A i \in DOMAIN email_logs : \A type \in {"open", "click"} :
        LET row == email_logs[i]
            done == Applied(type, row.id)
        IN  IF done = {} THEN TRUE
            ELSE \E b \in Beacons :
                    /\ beacons[b].type = type /\ beacons[b].logId = row.id
                    /\ beacons[b].pc \in {"done", "update"}
                    /\ row[StampColumn(type)] = beacons[b].stamp

\* two open beacons with different timestamps and a click beacon were applied
\* to one log row, which keeps the timestamp of the open beacon that ran first
C19_Witness ==
    \E i \in DOMAIN email_logs : \E b1, b2, c \in Beacons :
        /\ {b1, b2} \subseteq Applied("open", email_logs[i].id)
        /\ beacons[b1].stamp # beacons[b2].stamp
        /\ email_logs[i].opened_at = beacons[b1].stamp
        /\ c \in Applied("click", email_logs[i].id)
        /\ email_logs[i].clicked_at = beacons[c].stamp

\* the row matches the thread id or the lead id of the call
MatchesThread(row, q) ==
    \/ (IsValidThreadId(q.threadId) /\ row.thread_id = q.threadId)
    \/ (IsValidLeadId(q.leadId) /\ row.lead_id = q.leadId)

InResult(row) == \E k \in DOMAIN view.result : view.result[k].row = row

\* C20: the list returned by getThread contains every InboundMessage row and
\* every OutboundRecord row that matches the given thread id or the given
\* lead id.
C20_ThreadHasEveryMatch ==
    view.pc = "shown" =>
        /\ \A i \in DOMAIN replies :
              MatchesThread(replies[i], view.q) => InResult(replies[i])
        /\ \A i \in DOMAIN email_logs :
              MatchesThread(email_logs[i], view.q) => InResult(email_logs[i])

\* C20, what holds: when no query fails, the two-argument lookup returns
\* every matching replies row and every matching email_logs row of status
\* Sent
C20_UniboxHasEverySentMatch ==
    (view.pc = "shown" /\ view.page = "unibox" /\ view.failed = {}) =>
        /\ \A i \in DOMAIN replies :
              MatchesThread(replies[i], view.q) => InResult(replies[i])
        /\ \A i \in DOMAIN email_logs :
              (MatchesThread(email_logs[i], view.q) /\ email_logs[i].status = "Sent")
                  => InResult(email_logs[i])

\* C20, what holds: when no query fails and the participant query is not
\* made, the four-argument lookup returns every matching replies row
C20_WideHasEveryInboundMatch ==
    (view.pc = "shown" /\ view.page = "app" /\ view.failed = {}
     /\ \/ Cardinality({i \in DOMAIN replies : PrimaryFilter(replies[i], view.q)}) > 1
        \/ (view.q.fromEmail = NoAddr /\ view.q.toEmail = NoAddr)) =>
        \A i \in DOMAIN replies :
            MatchesThread(replies[i], view.q) => InResult(replies[i])

\* C21: in the list returned by getThread no two entries share the same
\* provider message id, even when a message is reachable through both the
\* thread-id lookup and the participant-email lookup.
C21_NoSharedMessageId ==
    view.pc = "shown" =>
        \A i, j \in DOMAIN view.result :
            i # j => view.result[i].row.message_id # view.result[j].row.message_id

\* C21, what holds: the four-argument lookup returns no message id twice
C21_WideNoSharedMessageId ==
    (view.pc = "shown" /\ view.page = "app") =>
        \A i, j \in DOMAIN view.result :
            i # j => view.result[i].row.message_id # view.result[j].row.message_id

\* the time a row carries: received_at for a replies row, sent_at for an
\* email_logs row
RowTime(row) == IF "sent_at" \in DOMAIN row THEN row.sent_at ELSE row.received_at

\* C22: the list returned by getThread is sorted in ascending order of
\* timestamp, using the received time for inbound entries and the sent time
\* for outbound entries.
C22_SortedByTimestamp ==
    view.pc = "shown" =>
        /\ \A i \in DOMAIN view.result :
              view.result[i].timestamp = RowTime(view.result[i].row)
        /\ \A i, j \in DOMAIN view.result :
              i < j => view.result[i].timestamp <= view.result[j].timestamp

\* a list of three entries whose storage order differs from their order in
\* time, one of them an email_logs row
C22_Witness ==
    /\ view.pc = "shown"
    /\ Len(view.result) = 3
    /\ view.result[1].timestamp < view.result[3].timestamp
    /\ \E k \in DOMAIN view.result : "sent_at" \in DOMAIN view.result[k].row
    /\ \E i, j \in DOMAIN replies :
          i < j /\ replies[i].received_at > replies[j].received_at
          /\ InResult(replies[i]) /\ InResult(replies[j])

\* the source of the message cannot be fetched or cannot be parsed
FetchOrParseFails(m) == m.envOk /\ m.from = LeadAddr /\ m.source \in {"fetcherr", "unparseable"}

\* an ordinary message from a lead
Ordinary(m) == m.envOk /\ m.from = LeadAddr /\ m.source = "ok"

\* C23: a failure to fetch or parse one message of the fetch window skips only
\* that message: the loop goes on, and when the sync has answered every
\* other message of the window is stored and the failing one is not.
C23_FailureSkipsOnlyThatMessage ==
    \A s \in Sessions :
        /\ inv[s].pc = "inboxLoop" =>
              \A i \in 1..(Len(inv[s].seen) - Len(inv[s].window)) :
                  Ordinary(inv[s].seen[i]) => inv[s].seen[i].messageId \in inv[s].pushed
        /\ (Done(s) /\ inv[s].resp.status = 200 /\ "error" \notin inv[s].resp.fields) =>
              \A i \in DOMAIN inv[s].seen :
                  /\ Ordinary(inv[s].seen[i])
                       => CountId(replies, inv[s].seen[i].messageId) = 1
                  /\ FetchOrParseFails(inv[s].seen[i])
                       => CountId(replies, inv[s].seen[i].messageId) = 0

\* a finished sync of a full window whose third message could not be fetched
\* or parsed: the messages before and after it are stored
C23_Witness ==
    \E s \in Sessions :
        /\ Done(s) /\ inv[s].resp.status = 200 /\ "error" \notin inv[s].resp.fields
        /\ Len(inv[s].seen) = InboxCap
        /\ FetchOrParseFails(inv[s].seen[3])
        /\ CountId(replies, inv[s].seen[2].messageId) = 1
        /\ CountId(replies, inv[s].seen[InboxCap].messageId) = 1
        /\ inv[s].resp.inbox = InboxCap - 1

\* a lead is stored under one of the participant addresses of the message
LeadMatches ==
    \E i \in DOMAIN leads :
        \E e \in {chg.msg.from_email, chg.msg.to_email} \ {NoAddr} :
            Ilike(leads[i].email, e)

TagWritten == \E i \in ReplyIds : tags[i] # ""

C25_ReadFlagSurvivesSync ==
    [][\A i \in DOMAIN replies : replies[i].is_read => replies'[i].is_read]_vars

\* C25, what holds: a sync changes neither the number of rows of a message nor
\* the message a row is about
C25_SyncKeepsRows ==
    [][\A i \in DOMAIN replies :
          /\ i \in DOMAIN replies'
          /\ replies'[i].message_id = replies[i].message_id]_vars

\* email_logs rows the invocation has written: those counted less those still
\* in its batch
SentWritten(s) ==
    inv[s].sentProcessed
    - Cardinality({i \in DOMAIN inv[s].batch : "status" \in DOMAIN inv[s].batch[i]})

\* C26: the inbox and sent counts reported in a sync result, whether full or
\* partial, never exceed the number of rows that the same invocation durably
\* wrote to storage for the inbox and sent folder respectively.
C26_CountsNeverExceedWrites ==
    \A s \in Sessions :
        (Done(s) /\ inv[s].resp.status = 200) =>
            /\ inv[s].resp.inbox <= inv[s].wrote
            /\ inv[s].resp.sent <= SentWritten(s)

\* C26, what holds: a full result reports exactly the rows written
C26_FullCountsAreWrites ==
    \A s \in Sessions :
        (Done(s) /\ inv[s].resp.status = 200 /\ ~inv[s].resp.partial) =>
            /\ inv[s].resp.inbox = inv[s].wrote
            /\ inv[s].resp.sent = SentWritten(s)
            /\ inv[s].batch = <<>>

\* the email_logs rows about the message the provider accepted as n
RecordsOf(n) ==
    {i \in DOMAIN email_logs : email_logs[i].message_id \in {n, EnvelopeId(n)}}

\* C27: after a message is sent through the send pipeline and the same
\* account's sent folder is later synced with a window that includes that
\* message, storage holds exactly one OutboundRecord for that sent message.
C27_OneRecordAfterSendAndSync ==
    \A n \in FirstId..(nextId - 1) :
        (/\ \E i \in DOMAIN email_logs : email_logs[i].message_id = n
         /\ \E s \in Sessions : Done(s) /\ EnvelopeId(n) \in inv[s].pushed
                                /\ inv[s].resp.status = 200 /\ ~inv[s].resp.partial)
        => Cardinality(RecordsOf(n)) = 1

\* C27, what holds: the send leaves at most one row with the API's message id
\* and the sync at most one with the envelope's
C27_OneRecordPerIdentifier ==
    \A n \in FirstId..(nextId - 1) :
        /\ CountId(email_logs, n) <= 1
        /\ CountId(email_logs, EnvelopeId(n)) <= 1

\* C28: every sync invocation that successfully connected to the mailbox logs
\* out of (closes) that connection before it returns, on the success path,
\* the partial-success path and the fatal-error path alike.
C28_LogoutOnEveryPath ==
    \A s \in Sessions : Done(s) => ~inv[s].conn

\* C28, what holds: an invocation that answers a full result has logged out
C28_LogoutOnSuccess ==
    \A s \in Sessions :
        (Done(s) /\ inv[s].resp.status = 200 /\ ~inv[s].resp.partial) => ~inv[s].conn

\* every refresh that was started has rendered
AllRefreshed ==
    /\ \E r \in Refreshes : refreshes[r].pc = "done"
    /\ \A r \in Refreshes : refreshes[r].pc \in {"idle", "done"}

\* the call started last
LastStarted == CHOOSE r \in Refreshes :
                   refreshes[r].pc # "idle" /\ \A q \in Refreshes : q > r => refreshes[q].pc = "idle"

\* C29: when several change notifications trigger overlapping list refreshes,
\* the thread list displayed after all of them have completed is the result
\* of the most recently started fetch; a slower fetch that started earlier
\* never overwrites the result of a newer one.
C29_LatestFetchWins ==
    AllRefreshed => shown = refreshes[LastStarted].data

\* C29, what holds: the list on display is what one of the completed calls
\* fetched
C29_ShownWasFetched ==
    shown # 0 => \E r \in Refreshes : refreshes[r].pc = "done" /\ refreshes[r].data = shown

\* the callbacks served for the address have all answered, one with success
Connected(a) ==
    /\ \A c \in Callbacks : cbs[c].pc \in {"idle", "done"}
    /\ \E c \in Callbacks : cbs[c].gmailAddress = a /\ cbs[c].redirect = "success"

\* C30: after any number of OAuth callbacks for the same user and the same
\* Gmail address, including two callbacks processed concurrently, there is
\* exactly one email account row for that (user, email address) pair.
C30_OneRowPerUserAndAddress ==
    \A a \in GmailAddresses :
        Connected(a) => Cardinality(MatchingAccounts(email_accounts, a)) = 1

\* C30, what holds: an address connected with success has a row, and no
\* address has more rows than the one stored before plus one per callback
\* for it that reached the insert
C30_RowsBoundedByInserts ==
    \A a \in GmailAddresses :
        LET n == Cardinality(MatchingAccounts(email_accounts, a))
        IN  /\ Connected(a) => n >= 1
            /\ n <= 1 + Cardinality({c \in Callbacks : cbs[c].gmailAddress = a /\ cbs[c].existing = 0
                                                       /\ cbs[c].redirect = "success"})
====
